---- MODULE Spec2Model ----
(***************************************************************************)
(* EaseView (screen_overlay.py): the settings/profile persistence layer,   *)
(* the settings migration, and the overlay lifecycle manager.              *)
(*                                                                         *)
(* Units.  Opacity and density are Python floats in the source; here they  *)
(* are integers in hundredths (0.30 is 30, 1.5 is 150).  Densities are     *)
(* drawn from multiples of 0.25, which binary floating point represents    *)
(* exactly, so the integer arithmetic below equals the float arithmetic    *)
(* of the source on every modelled input.                                  *)
(***************************************************************************)
EXTENDS Integers, Sequences, FiniteSets, TLC

(***************************************************************************)
(* JSON / Python values.  Every value is a record of the same shape so     *)
(* that any two values can be compared:                                    *)
(*   t  the Python type: "null", "bool", "num", "str", "dict", "list",     *)
(*      and "bigint" for an int beyond the range of a float                *)
(*   n  the number (bool: 0 or 1)                                          *)
(*   s  the string                                                         *)
(*   k  the items of a nested dict, as <<key, value>> pairs of strings     *)
(*   l  the elements of a list of strings                                  *)
(***************************************************************************)
Null == [t |-> "null", n |-> 0, s |-> "", k |-> {}, l |-> <<>>]

Bool(b) == [t |-> "bool", n |-> IF b THEN 1 ELSE 0, s |-> "", k |-> {}, l |-> <<>>]

Num(i) == [t |-> "num", n |-> i, s |-> "", k |-> {}, l |-> <<>>]

Str(x) == [t |-> "str", n |-> 0, s |-> x, k |-> {}, l |-> <<>>]

Dict(items) == [t |-> "dict", n |-> 0, s |-> "", k |-> items, l |-> <<>>]

List(xs) == [t |-> "list", n |-> 0, s |-> "", k |-> {}, l |-> xs]

\* an int that json.load reads from a literal of several hundred digits
BigInt == [t |-> "bigint", n |-> 2147483647, s |-> "", k |-> {}, l |-> <<>>]

\* Python truthiness: bool(v), `if v:`
Truthy(v) ==
    CASE v.t = "null" -> FALSE
      [] v.t = "bool" -> v.n = 1
      [] v.t = "num"  -> v.n # 0
      [] v.t = "bigint" -> TRUE
      [] v.t = "str"  -> v.s # ""
      [] v.t = "dict" -> v.k # {}
      [] v.t = "list" -> v.l # <<>>

\* isinstance(v, (int, float)): bool is a subclass of int
IsNumber(v) == v.t \in {"num", "bool", "bigint"}

\* float(v) raises OverflowError: int too large to convert to float
FloatRaises(v) == v.t = "bigint"

\* float(v) of an opacity or density, in hundredths: float(True) is 1.0
Hundredths(v) == IF v.t = "bool" THEN 100 * v.n ELSE v.n

Max(a, b) == IF a >= b THEN a ELSE b

Min(a, b) == IF a <= b THEN a ELSE b

(***************************************************************************)
(* State                                                                   *)
(***************************************************************************)
\* the settings store
VARIABLES
    settings,        \* SettingsManager.settings
    save_pending,    \* SettingsManager._save_pending
    settings_file,   \* the file at SETTINGS_FILE
    backup_file,     \* the file at SETTINGS_FILE + '.backup'
    profiles,        \* the files at PROFILES_DIR/<name>.json, by profile name
    export_file,     \* the file at the path given to export_settings
    io_error,        \* the file operation that failed in the last call, or "none"
    last,            \* the last call made on the SettingsManager and its result
    ops              \* number of calls made so far

settingsVars ==
    <<settings, save_pending, settings_file, backup_file, profiles, export_file, io_error,
      last, ops>>

\* _migrate_settings applied as a function
VARIABLES
    m_in,      \* the record given to _migrate_settings
    m_from,    \* from_version
    m_out,     \* [ok, rec]: the result of migrating m_in
    m_out2,    \* [ok, rec]: the result of migrating m_out.rec
    m_pc       \* "idle", "input", "once", "twice", "current"

migrateVars == <<m_in, m_from, m_out, m_out2, m_pc>>

\* the overlay manager
VARIABLES
    windows,          \* the Toplevel windows that exist, by window id
    next_id,          \* the id of the next Toplevel
    overlay_windows,  \* OverlayManager.overlay_windows: window ids
    is_active,        \* OverlayManager.is_active
    current_color,    \* OverlayManager.current_color ("" for None)
    current_opacity,  \* OverlayManager.current_opacity
    current_density,  \* OverlayManager.current_density
    monitoring,       \* OverlayManager.monitoring
    watchdogs,        \* the live monitor_loop threads: [pc, valid_windows]
    ui_queue,         \* callbacks given to root.after(0, ...) and not yet run
    fade_animation_id,\* OverlayManager.fade_animation_id (0 for None)
    timers,           \* animate callbacks given to root.after(33, ...) and not yet run
    next_timer,       \* the id root.after returns next
    olast,            \* the last OverlayManager call and its result
    oops,             \* number of UI-thread calls and external events so far
    olimit            \* number of such calls and events explored in a run

overlayVars ==
    <<windows, next_id, overlay_windows, is_active, current_color, current_opacity,
      current_density, monitoring, watchdogs, ui_queue, fade_animation_id, timers,
      next_timer, olast, oops, olimit>>

\* the schedule engine and the debounced saves of the application
VARIABLES
    running,          \* ScheduleManager.running
    tick,             \* number of polls the schedule loop has made
    decision,         \* what the last poll gave to root.after: show, hide or none
    in_window,        \* the window state the last poll computed
    twin_schedule,    \* a schedule that differs from the stored one in start and end
    twin_decision,    \* what the last poll would have given under twin_schedule
    save_timers,      \* save_pending callbacks given to root.after and not yet run
    save_timer_id,    \* _opacity_save_timer, _density_save_timer, _geometry_save_timer
    next_save_timer,  \* the id root.after returns next for a save timer
    burst             \* slider kinds changed and file writes made since the last quiet state

scheduleVars ==
    <<running, tick, decision, in_window, twin_schedule, twin_decision>>

debounceVars == <<save_timers, save_timer_id, next_save_timer, burst>>

\* _apply_density applied as a function
VARIABLES
    d_color,          \* the hex_color given, as characters
    d_density,        \* the density given, in hundredths
    d_out             \* the string returned, as characters; <<>> before the call

densityVars == <<d_color, d_density, d_out>>

\* components that are called on their own
VARIABLES
    validate_call,    \* [prior, loaded]: self.settings before, and the record given to,
                      \* the last _validate_and_apply called on its own
    schedule_loops,   \* the schedule_loop threads: [pc, schedule, observed]
    dialog,           \* the save() handler of the schedule dialog: [pc, enabled]
    detected,         \* what MonitorDetector.get_monitors() returned; <<>> before the call
    lock_file,        \* the file at LOCK_FILE
    lockers,          \* the processes that call InstanceLocker, by pid
    logger            \* the AsyncLogger, its worker thread, its caller and the log file

validateVars == <<validate_call>>

loopVars == <<schedule_loops, dialog>>

detectVars == <<detected>>

lockVars == <<lock_file, lockers>>

loggerVars == <<logger>>

sysVars == <<validateVars, loopVars, detectVars, lockVars, loggerVars>>

appVars == <<scheduleVars, debounceVars, densityVars, sysVars>>

vars == <<settingsVars, migrateVars, overlayVars, appVars>>

(***************************************************************************)
(* Python dicts with string keys: functions whose domain is the key set.   *)
(***************************************************************************)
EmptyDict == [x \in {} |-> Null]

Get(d, key, default) == IF key \in DOMAIN d THEN d[key] ELSE default

Put(d, key, val) == [x \in (DOMAIN d) \cup {key} |-> IF x = key THEN val ELSE d[x]]

SetDefault(d, key, val) == IF key \in DOMAIN d THEN d ELSE Put(d, key, val)

\* dict.setdefault on a nested dict value: items are <<key, value>> pairs
NestedSetDefault(v, key, val) ==
    IF \E it \in v.k : it[1] = key THEN v ELSE Dict(v.k \cup {<<key, val>>})

(***************************************************************************)
(* The characters of the strings that the code inspects (startswith,       *)
(* slicing): colour literals and a non-colour.                             *)
(***************************************************************************)
\* the colours that the colour picker returns: lower-case '#rrggbb' strings
Palette ==
    <<"#000001", "#000002", "#000003", "#000004", "#000005", "#000006", "#000007",
      "#000008", "#000009", "#00000a", "#00000b">>

PaletteLastDigit == <<"1", "2", "3", "4", "5", "6", "7", "8", "9", "a", "b">>

Chars(x) ==
    CASE \E i \in 1..Len(Palette) : Palette[i] = x ->
             <<"#", "0", "0", "0", "0", "0",
               PaletteLastDigit[CHOOSE i \in 1..Len(Palette) : Palette[i] = x]>>
      [] x = "#FFD54F" -> <<"#", "F", "F", "D", "5", "4", "F">>
      [] x = "#ffd54f" -> <<"#", "f", "f", "d", "5", "4", "f">>
      [] x = "#000000" -> <<"#", "0", "0", "0", "0", "0", "0">>
      [] x = "#FF0000" -> <<"#", "F", "F", "0", "0", "0", "0">>
      [] x = "#80C0FF" -> <<"#", "8", "0", "C", "0", "F", "F">>
      [] x = "#GGGGGG" -> <<"#", "G", "G", "G", "G", "G", "G">>
      [] x = "#FFF"    -> <<"#", "F", "F", "F">>
      [] x = "red"     -> <<"r", "e", "d">>
      [] x = ""        -> <<>>
      [] OTHER         -> <<"?">>

\* str.startswith('#')
StartsWithHash(x) == Len(Chars(x)) >= 1 /\ Chars(x)[1] = "#"

(***************************************************************************)
(* Program constants                                                       *)
(***************************************************************************)
SETTINGS_VERSION == 5

DefaultWindowGeometry ==
    Dict({<<"x", "null">>, <<"y", "null">>, <<"width", "480">>, <<"height", "750">>})

DefaultHotkeys ==
    Dict({<<"toggle", "Control+Shift+O">>,
          <<"increase_opacity", "Control+Shift+Up">>,
          <<"decrease_opacity", "Control+Shift+Down">>,
          <<"increase_density", "Control+Shift+Right">>,
          <<"decrease_density", "Control+Shift+Left">>})

DefaultSchedule ==
    Dict({<<"enabled", "false">>, <<"start_time", "09:00">>, <<"end_time", "17:00">>,
          <<"use_sunset", "false">>, <<"location", "55.9533,-3.1883,Europe/London">>})

DefaultAccessibility == Dict({<<"high_contrast", "false">>, <<"font_scale", "1.0">>})

DEFAULT_SETTINGS ==
    [version |-> Num(SETTINGS_VERSION),
     preset_name |-> Null,
     custom_color |-> Null,
     opacity |-> Num(30),
     density |-> Num(100),
     overlay_enabled |-> Bool(FALSE),
     recent_colors |-> List(<<>>),
     window_geometry |-> DefaultWindowGeometry,
     hotkeys |-> DefaultHotkeys,
     auto_startup |-> Bool(FALSE),
     start_minimized |-> Bool(FALSE),
     enable_notifications |-> Bool(TRUE),
     enable_fade |-> Bool(TRUE),
     schedule |-> DefaultSchedule,
     accessibility |-> DefaultAccessibility,
     current_profile |-> Null,
     auto_backup |-> Bool(TRUE),
     backup_interval_hours |-> Num(24)]

(***************************************************************************)
(* SettingsManager._migrate_settings(settings, from_version).              *)
(* The result is [ok, rec]: ok is FALSE when the call raises (the nested   *)
(* setdefault on a 'schedule' that is not a dict), and rec is the record   *)
(* as the in-place updates left it.                                        *)
(***************************************************************************)
\* if from_version == 1: relocate 'last_color', reset 'preset_name'
MigrateV1(loaded, from_version) ==
    IF from_version = 1
    THEN LET old_color == Get(loaded, "last_color", Null)
             s1 == IF Truthy(old_color) THEN Put(loaded, "custom_color", old_color)
                                        ELSE loaded
         IN  Put(s1, "preset_name", Null)
    ELSE loaded

\* if from_version < 3: settings['density'] = 1.0
MigrateV3(loaded, from_version) ==
    IF from_version < 3 THEN Put(loaded, "density", Num(100)) ELSE loaded

\* if from_version < 4: six setdefault calls
MigrateV4(loaded, from_version) ==
    IF from_version < 4
    THEN LET s1 == SetDefault(loaded, "window_geometry", DefaultWindowGeometry)
             s2 == SetDefault(s1, "hotkeys", DefaultHotkeys)
             s3 == SetDefault(s2, "auto_startup", Bool(FALSE))
             s4 == SetDefault(s3, "schedule", DefaultSchedule)
             s5 == SetDefault(s4, "accessibility", DefaultAccessibility)
         IN  SetDefault(s5, "current_profile", Null)
    ELSE loaded

\* if from_version < 5: the setdefault calls up to the nested schedule update
MigrateV5Head(loaded, from_version) ==
    IF from_version < 5
    THEN LET s1 == SetDefault(loaded, "recent_colors", List(<<>>))
             s2 == SetDefault(s1, "start_minimized", Bool(FALSE))
             s3 == SetDefault(s2, "enable_notifications", Bool(TRUE))
         IN  SetDefault(s3, "enable_fade", Bool(TRUE))
    ELSE loaded

\* settings['schedule'].setdefault(...) raises when 'schedule' is not a dict
MigrateV5Raises(loaded, from_version) ==
    /\ from_version < 5
    /\ "schedule" \in DOMAIN loaded
    /\ loaded["schedule"].t # "dict"

\* the nested schedule update and the remaining setdefault calls
MigrateV5Tail(loaded, from_version) ==
    IF from_version < 5
    THEN LET s1 == IF "schedule" \in DOMAIN loaded
                   THEN Put(loaded, "schedule",
                            NestedSetDefault(
                                NestedSetDefault(loaded["schedule"], "use_sunset", "false"),
                                "location", "55.9533,-3.1883,Europe/London"))
                   ELSE loaded
             s2 == SetDefault(s1, "auto_backup", Bool(TRUE))
         IN  SetDefault(s2, "backup_interval_hours", Num(24))
    ELSE loaded

\* a plausible slip: the version stamp advances one step instead of to current
MigrateSettingsStepStamp(loaded, from_version) ==
    LET a == MigrateV5Head(MigrateV4(MigrateV3(MigrateV1(loaded, from_version),
                                               from_version), from_version), from_version)
    IN  IF MigrateV5Raises(a, from_version)
        THEN [ok |-> FALSE, rec |-> a]
        ELSE [ok |-> TRUE,
              rec |-> Put(MigrateV5Tail(a, from_version), "version", Num(from_version + 1))]

MigrateSettings(loaded, from_version) ==
    LET a == MigrateV5Head(MigrateV4(MigrateV3(MigrateV1(loaded, from_version),
                                               from_version), from_version), from_version)
    IN  IF MigrateV5Raises(a, from_version)
        THEN [ok |-> FALSE, rec |-> a]
        ELSE [ok |-> TRUE,
              rec |-> Put(MigrateV5Tail(a, from_version), "version", Num(SETTINGS_VERSION))]

(***************************************************************************)
(* SettingsManager._validate_and_apply(loaded): updates self.settings.      *)
(* When float() raises, the result is self.settings as the assignments     *)
(* made before the raise left it.                                          *)
(***************************************************************************)
ClampOpacity(o) == Max(10, Min(60, o))

ClampDensity(d) == Max(50, Min(150, d))

ValidateAndApply(current, loaded) ==
    LET opacity == Get(loaded, "opacity", Num(30))
        s1 == IF IsNumber(opacity)
              THEN Put(current, "opacity", Num(ClampOpacity(Hundredths(opacity))))
              ELSE current
        density == Get(loaded, "density", Num(100))
        s2 == IF IsNumber(density)
              THEN Put(s1, "density", Num(ClampDensity(Hundredths(density))))
              ELSE s1
        preset == Get(loaded, "preset_name", Null)
        s3 == IF preset.t \in {"null", "str"} THEN Put(s2, "preset_name", preset) ELSE s2
        custom == Get(loaded, "custom_color", Null)
        s4 == IF custom.t = "null" \/ (custom.t = "str" /\ StartsWithHash(custom.s))
              THEN Put(s3, "custom_color", custom)
              ELSE s3
    IN  IF FloatRaises(opacity)
        THEN current
        ELSE IF FloatRaises(density)
             THEN s1
             ELSE Put(s4, "overlay_enabled",
                      Bool(Truthy(Get(loaded, "overlay_enabled", Bool(FALSE)))))

\* _validate_and_apply(loaded) raises
ValidateRaises(loaded) ==
    \/ FloatRaises(Get(loaded, "opacity", Num(30)))
    \/ FloatRaises(Get(loaded, "density", Num(100)))

(***************************************************************************)
(* Files.  A file is [kind, obj, tag]:                                     *)
(*   "absent"   no file at the path                                        *)
(*   "json"     a JSON object, obj                                         *)
(*   "nonobj"   valid JSON that is not an object (a list, a number)        *)
(*   "corrupt"  text that json.load rejects; tag tells two such texts apart*)
(* json.dump writes str keys, numbers, booleans, null, strings, lists and  *)
(* dicts, and json.load reads each back as the value it was, so a dumped   *)
(* record parses to the record itself; the other kinds of content parse to *)
(* something else or not at all.                                           *)
(***************************************************************************)
FileAbsent == [kind |-> "absent", obj |-> EmptyDict, tag |-> 0]

JsonDump(record) == [kind |-> "json", obj |-> record, tag |-> 0]

NonObjFile == [kind |-> "nonobj", obj |-> EmptyDict, tag |-> 0]

CorruptFile(i) == [kind |-> "corrupt", obj |-> EmptyDict, tag |-> i]

\* os.path.exists
Exists(file) == file.kind # "absent"

\* Bound: number of SettingsManager calls in a run
MaxOps == 3

ProfileNames == {"night", "work"}

NoCall == [op |-> "none", key |-> "", val |-> Null, name |-> "", imm |-> FALSE, ret |-> "none"]

Call(op, key, val, name, imm, ret) ==
    [op |-> op, key |-> key, val |-> val, name |-> name, imm |-> imm, ret |-> ret]

(***************************************************************************)
(* SettingsManager.load and its helpers, as functions of the store         *)
(* st = [settings, file, backup]                                           *)
(***************************************************************************)
\* _backup_and_reset: os.rename replaces an existing destination on POSIX and
\* raises FileExistsError on Windows (swallowed); replaces tells which
BackupAndReset(st, replaces) ==
    IF Exists(st.file) /\ (replaces \/ ~Exists(st.backup))
    THEN [settings |-> DEFAULT_SETTINGS, file |-> FileAbsent, backup |-> st.file]
    ELSE [settings |-> DEFAULT_SETTINGS, file |-> st.file, backup |-> st.backup]

\* the version test and migration shared by load, import_settings and
\* load_profile: [ok, rec]; ok is FALSE when an exception is raised
\* (loaded.get on a non-dict, '<' on a non-number, a raising migration)
MigrateLoaded(file) ==
    IF file.kind # "json"
    THEN [ok |-> FALSE, rec |-> EmptyDict]
    ELSE LET file_version == Get(file.obj, "version", Num(1))
         IN  IF ~IsNumber(file_version)
             THEN [ok |-> FALSE, rec |-> file.obj]
             ELSE IF file_version.n < SETTINGS_VERSION
                  THEN MigrateSettings(file.obj, file_version.n)
                  ELSE [ok |-> TRUE, rec |-> file.obj]

Load(st, replaces) ==
    IF ~Exists(st.file)
    THEN st
    ELSE IF st.file.kind = "corrupt"
         THEN BackupAndReset(st, replaces)
         ELSE LET m == MigrateLoaded(st.file)
              IN  IF m.ok
                  THEN [st EXCEPT !.settings = ValidateAndApply(st.settings, m.rec)]
                  ELSE st

Store == [settings |-> settings, file |-> settings_file, backup |-> backup_file]

\* SettingsManager.list_profiles: the sorted names; the model keeps the set
\* names for which os.path.join(PROFILES_DIR, name + '.json') is a file of the
\* parent directory, not of PROFILES_DIR
ParentDirNames == {"../night"}

\* os.listdir(PROFILES_DIR) holds the file of the profile name
InProfilesDir(name) == name \notin ParentDirNames

ListProfiles == {name \in DOMAIN profiles : InProfilesDir(name) /\ Exists(profiles[name])}

(***************************************************************************)
(* Inputs                                                                  *)
(***************************************************************************)
ScheduleOn ==
    Dict({<<"enabled", "true">>, <<"start_time", "08:00">>, <<"end_time", "18:00">>,
          <<"use_sunset", "false">>, <<"location", "55.9533,-3.1883,Europe/London">>})

\* a schedule written by schema version 4: no use_sunset, no location
ScheduleV4 == Dict({<<"enabled", "true">>, <<"start_time", "08:00">>, <<"end_time", "18:00">>})

\* the <<key, value>> pairs given to set()
SetInputs ==
    { <<"opacity", Num(40)>>, <<"opacity", Num(200)>>, <<"opacity", Num(-100)>>,
      <<"density", Num(120)>>, <<"density", Num(200)>>, <<"density", Num(10)>>,
      <<"preset_name", Str("Yellow")>>, <<"custom_color", Str("#FFD54F")>>,
      <<"overlay_enabled", Bool(TRUE)>>, <<"enable_fade", Bool(FALSE)>>,
      <<"schedule", ScheduleOn>> }

\* set() inputs that respect the documented range or shape of their key
InRange(key, val) ==
    CASE key = "opacity" -> val.t = "num" /\ val.n >= 10 /\ val.n <= 60
      [] key = "density" -> val.t = "num" /\ val.n >= 50 /\ val.n <= 150
      [] key = "preset_name" -> val.t \in {"null", "str"}
      [] key = "custom_color" -> val.t = "null" \/ (val.t = "str" /\ Len(Chars(val.s)) = 7)
      [] key \in {"overlay_enabled", "enable_fade"} -> val.t = "bool"
      [] key = "schedule" -> val.t = "dict"
      [] key = "recent_colors" -> val.t = "list" /\ Len(val.l) <= 10
      [] OTHER -> FALSE

\* profile_data as in test_profile_operations: no 'version' key
ProfileNoVersion == [opacity |-> Num(50), density |-> Num(120)]

ProfileWithVersion ==
    [version |-> Num(SETTINGS_VERSION), opacity |-> Num(50), density |-> Num(120)]

\* records written by older schema versions
RecordV1 == [last_color |-> Str("#FFD54F"), opacity |-> Num(40), preset_name |-> Str("Yellow")]

RecordV2 ==
    [version |-> Num(2), opacity |-> Num(50), density |-> Num(120),
     preset_name |-> Str("Yellow"), custom_color |-> Str("#000000")]

RecordV4 ==
    [version |-> Num(4), opacity |-> Num(20), density |-> Num(75), schedule |-> ScheduleV4,
     overlay_enabled |-> Bool(TRUE)]

\* current version, values out of range
RecordOutOfRange ==
    [version |-> Num(SETTINGS_VERSION), opacity |-> Num(200), density |-> Num(10)]

\* current version, every validated field of the wrong type or shape
RecordBadTypes ==
    [version |-> Num(SETTINGS_VERSION), opacity |-> Str("abc"), density |-> Null,
     preset_name |-> Num(3), custom_color |-> Str("red"), overlay_enabled |-> Num(1)]

\* a 'schedule' that is not a dict: the v5 migration step raises
RecordBadSchedule == [version |-> Num(4), opacity |-> Num(50), schedule |-> Str("always")]

\* current version, a 'density' too large for float(): validation raises after
\* 'opacity' was applied
RecordHugeDensity == [version |-> Num(SETTINGS_VERSION), opacity |-> Num(50), density |-> BigInt]

\* a 'version' that is not a number: the version comparison raises
RecordBadVersion == [version |-> Str("five"), opacity |-> Num(50)]

\* what the settings file may hold when the manager did not write it
FileContents ==
    {JsonDump(r) : r \in {RecordV2, RecordV4, RecordBadTypes, RecordBadVersion}}
        \cup {NonObjFile, CorruptFile(1), CorruptFile(2)}

\* what a file given to import_settings may hold
ImportContents ==
    {JsonDump(r) : r \in {RecordV1, RecordOutOfRange, RecordBadTypes, RecordBadSchedule}}
        \cup {NonObjFile, CorruptFile(1)}

\* what a profile file may hold when save_profile did not write it
ProfileContents == {JsonDump(RecordV2), JsonDump(RecordBadTypes), CorruptFile(1)}

(***************************************************************************)
(* SettingsManager operations                                              *)
(***************************************************************************)
\* a plausible slip: the class defaults are dumped instead of self.settings
SaveWritesDefaults(record) == JsonDump(DEFAULT_SETTINGS)

\* save(): json.dump(self.settings) to the settings file
SaveWrites(record) == JsonDump(record)

\* what open(path, 'w') followed by json.dump can do: succeed, fail at open
\* (the file is as it was), or fail after open truncated the file
WriteOutcomes == {"ok", "denied", "partial"}

\* what open(path, 'r'), os.remove and os.listdir can do
CallOutcomes == {"ok", "fails"}

\* the file at a path after a write that did not succeed
FailedWrite(file, w) == IF w = "denied" THEN file ELSE CorruptFile(0)

\* with open(path, 'w') as f: json.dump(record, f), for a profile or an export
WriteFile(file, record, w) == IF w = "ok" THEN JsonDump(record) ELSE FailedWrite(file, w)

\* the settings file after save()
SaveFile(file, record, w) == IF w = "ok" THEN SaveWrites(record) ELSE FailedWrite(file, w)

\* a plausible slip: the flag is cleared before the write is attempted
PendingClearedFirst(pending, w) == FALSE

\* _save_pending after save(): cleared only after json.dump returned
PendingAfterSave(pending, w) == IF w = "ok" THEN FALSE ELSE pending

\* which file operation of a call failed
IoError(r, w) == IF r # "ok" THEN "read" ELSE IF w # "ok" THEN "write" ELSE "none"

\* set(key, value, save_immediately)
Set(key, val, imm, w) ==
    /\ ops < MaxOps
    /\ w # "ok" => imm
    /\ settings' = Put(settings, key, val)
    /\ IF imm
       THEN /\ settings_file' = SaveFile(settings_file, settings', w)
            /\ save_pending' = PendingAfterSave(TRUE, w)
       ELSE settings_file' = settings_file /\ save_pending' = TRUE
    /\ io_error' = IoError("ok", w)
    /\ last' = Call("set", key, val, "", imm, "none")
    /\ ops' = ops + 1
    /\ UNCHANGED <<backup_file, profiles, export_file>>
    /\ UNCHANGED <<migrateVars, overlayVars, appVars>>

Save(w) ==
    /\ ops < MaxOps
    /\ settings_file' = SaveFile(settings_file, settings, w)
    /\ save_pending' = PendingAfterSave(save_pending, w)
    /\ io_error' = IoError("ok", w)
    /\ last' = Call("save", "", Null, "", FALSE, "none")
    /\ ops' = ops + 1
    /\ UNCHANGED <<settings, backup_file, profiles, export_file>>
    /\ UNCHANGED <<migrateVars, overlayVars, appVars>>

\* save_pending()
SavePending(w) ==
    /\ ops < MaxOps
    /\ w # "ok" => save_pending
    /\ IF save_pending
       THEN /\ settings_file' = SaveFile(settings_file, settings, w)
            /\ save_pending' = PendingAfterSave(save_pending, w)
       ELSE UNCHANGED <<settings_file, save_pending>>
    /\ io_error' = IoError("ok", w)
    /\ last' = Call("save_pending", "", Null, "", FALSE, "none")
    /\ ops' = ops + 1
    /\ UNCHANGED <<settings, backup_file, profiles, export_file>>
    /\ UNCHANGED <<migrateVars, overlayVars, appVars>>

\* load() on the live manager; r tells whether open(settings_file, 'r') works
LoadCall(replaces, r) ==
    /\ ops < MaxOps
    /\ r # "ok" => Exists(settings_file)
    /\ LET st == IF r = "ok" THEN Load(Store, replaces) ELSE Store
       IN  /\ settings' = st.settings
           /\ settings_file' = st.file
           /\ backup_file' = st.backup
    /\ io_error' = IoError(r, "ok")
    /\ last' = Call("load", "", Null, "", FALSE, "none")
    /\ ops' = ops + 1
    /\ UNCHANGED <<save_pending, profiles, export_file>>
    /\ UNCHANGED <<migrateVars, overlayVars, appVars>>

\* SettingsManager(): a fresh manager (process start): defaults, then load()
NewManager(replaces, r) ==
    /\ ops < MaxOps
    /\ r # "ok" => Exists(settings_file)
    /\ LET fresh == [Store EXCEPT !.settings = DEFAULT_SETTINGS]
           st == IF r = "ok" THEN Load(fresh, replaces) ELSE fresh
       IN  /\ settings' = st.settings
           /\ settings_file' = st.file
           /\ backup_file' = st.backup
    /\ save_pending' = FALSE
    /\ io_error' = IoError(r, "ok")
    /\ last' = Call("new", "", Null, "", FALSE, "none")
    /\ ops' = ops + 1
    /\ UNCHANGED <<profiles, export_file>>
    /\ UNCHANGED <<migrateVars, overlayVars, appVars>>

\* export_settings(filepath)
ExportSettings(w) ==
    /\ ops < MaxOps
    /\ export_file' = WriteFile(export_file, settings, w)
    /\ io_error' = IoError("ok", w)
    /\ last' = Call("export_settings", "", Null, "", FALSE,
                    IF w = "ok" THEN "True" ELSE "False")
    /\ ops' = ops + 1
    /\ UNCHANGED <<settings, save_pending, settings_file, backup_file, profiles>>
    /\ UNCHANGED <<migrateVars, overlayVars, appVars>>

\* import_settings(filepath), the file at filepath holding content
ImportSettings(content, r, w) ==
    /\ ops < MaxOps
    /\ LET m == MigrateLoaded(content)
           validates == r = "ok" /\ m.ok
           applies == validates /\ ~ValidateRaises(m.rec)
       IN  /\ w # "ok" => applies
           /\ IF applies
              THEN /\ settings' = ValidateAndApply(settings, m.rec)
                   /\ settings_file' = SaveFile(settings_file, settings', w)
                   /\ save_pending' = PendingAfterSave(save_pending, w)
                   /\ last' = Call("import_settings", "", Null, "", FALSE, "True")
              ELSE /\ settings' = IF validates THEN ValidateAndApply(settings, m.rec)
                                                ELSE settings
                   /\ UNCHANGED <<settings_file, save_pending>>
                   /\ last' = Call("import_settings", "", Null, "", FALSE, "False")
    /\ io_error' = IoError(r, w)
    /\ ops' = ops + 1
    /\ UNCHANGED <<backup_file, profiles, export_file>>
    /\ UNCHANGED <<migrateVars, overlayVars, appVars>>

\* save_profile(profile_name, profile_data)
SaveProfile(name, data, w) ==
    /\ ops < MaxOps
    /\ profiles' = [profiles EXCEPT ![name] = WriteFile(@, data, w)]
    /\ io_error' = IoError("ok", w)
    /\ last' = Call("save_profile", "", Null, name, FALSE,
                    IF w = "ok" THEN "True" ELSE "False")
    /\ ops' = ops + 1
    /\ UNCHANGED <<settings, save_pending, settings_file, backup_file, export_file>>
    /\ UNCHANGED <<migrateVars, overlayVars, appVars>>

\* save_profile(profile_name): profile_data = self.settings.copy()
SaveProfileCurrent(name, w) ==
    /\ ops < MaxOps
    /\ profiles' = [profiles EXCEPT ![name] = WriteFile(@, settings, w)]
    /\ io_error' = IoError("ok", w)
    /\ last' = Call("save_profile", "", Null, name, TRUE,
                    IF w = "ok" THEN "True" ELSE "False")
    /\ ops' = ops + 1
    /\ UNCHANGED <<settings, save_pending, settings_file, backup_file, export_file>>
    /\ UNCHANGED <<migrateVars, overlayVars, appVars>>

\* load_profile(profile_name)
LoadProfile(name, r, w) ==
    /\ ops < MaxOps
    /\ r # "ok" => Exists(profiles[name])
    /\ LET m == MigrateLoaded(profiles[name])
           validates == Exists(profiles[name]) /\ r = "ok" /\ m.ok
           applies == validates /\ ~ValidateRaises(m.rec)
       IN  /\ w # "ok" => applies
           /\ IF applies
              THEN /\ settings' = Put(ValidateAndApply(settings, m.rec),
                                      "current_profile", Str(name))
                   /\ settings_file' = SaveFile(settings_file, settings', w)
                   /\ save_pending' = PendingAfterSave(TRUE, w)
                   /\ last' = Call("load_profile", "", Null, name, FALSE, "True")
              ELSE /\ settings' = IF validates THEN ValidateAndApply(settings, m.rec)
                                                ELSE settings
                   /\ UNCHANGED <<settings_file, save_pending>>
                   /\ last' = Call("load_profile", "", Null, name, FALSE, "False")
    /\ io_error' = IoError(r, w)
    /\ ops' = ops + 1
    /\ UNCHANGED <<backup_file, profiles, export_file>>
    /\ UNCHANGED <<migrateVars, overlayVars, appVars>>

\* the names in the order sorted() gives them
SortedProfileNames == <<"night", "work">>

\* list_profiles(): the sorted names, [] when os.listdir raises
ListProfilesCall(l) ==
    /\ ops < MaxOps
    /\ io_error' = IF l = "ok" THEN "none" ELSE "listdir"
    /\ last' = Call("list_profiles", "",
                    List(IF l = "ok"
                         THEN SelectSeq(SortedProfileNames, LAMBDA n : n \in ListProfiles)
                         ELSE <<>>),
                    "", FALSE, "list")
    /\ ops' = ops + 1
    /\ UNCHANGED <<settings, save_pending, settings_file, backup_file, profiles, export_file>>
    /\ UNCHANGED <<migrateVars, overlayVars, appVars>>

\* delete_profile(profile_name); d tells whether os.remove works
DeleteProfile(name, d) ==
    /\ ops < MaxOps
    /\ d # "ok" => Exists(profiles[name])
    /\ profiles' = IF d = "ok" THEN [profiles EXCEPT ![name] = FileAbsent] ELSE profiles
    /\ io_error' = IF d = "ok" THEN "none" ELSE "remove"
    /\ last' = Call("delete_profile", "", Null, name, FALSE,
                    IF Exists(profiles[name]) /\ d = "ok" THEN "True" ELSE "False")
    /\ ops' = ops + 1
    /\ UNCHANGED <<settings, save_pending, settings_file, backup_file, export_file>>
    /\ UNCHANGED <<migrateVars, overlayVars, appVars>>

\* the environment: the settings file as another run, an older release, an
\* interrupted write or an editor left it
FileReplaced(content) ==
    /\ ops < MaxOps
    /\ settings_file' = content
    /\ io_error' = "none"
    /\ last' = Call("file_replaced", "", Null, "", FALSE, "none")
    /\ ops' = ops + 1
    /\ UNCHANGED <<settings, save_pending, backup_file, profiles, export_file>>
    /\ UNCHANGED <<migrateVars, overlayVars, appVars>>

\* the environment: a profile file left by an older release or an editor
ProfileReplaced(name, content) ==
    /\ ops < MaxOps
    /\ profiles' = [profiles EXCEPT ![name] = content]
    /\ io_error' = "none"
    /\ last' = Call("profile_replaced", "", Null, name, FALSE, "none")
    /\ ops' = ops + 1
    /\ UNCHANGED <<settings, save_pending, settings_file, backup_file, export_file>>
    /\ UNCHANGED <<migrateVars, overlayVars, appVars>>

\* the store when every file operation succeeds
SettingsNext ==
    \/ \E kv \in SetInputs, imm \in BOOLEAN : Set(kv[1], kv[2], imm, "ok")
    \/ Save("ok")
    \/ SavePending("ok")
    \/ \E replaces \in BOOLEAN : LoadCall(replaces, "ok")
    \/ \E replaces \in BOOLEAN : NewManager(replaces, "ok")
    \/ \E content \in ImportContents : ImportSettings(content, "ok", "ok")
    \/ \E name \in ProfileNames, data \in {ProfileNoVersion, ProfileWithVersion} :
           SaveProfile(name, data, "ok")
    \/ \E name \in ProfileNames : SaveProfileCurrent(name, "ok")
    \/ \E name \in ProfileNames : LoadProfile(name, "ok", "ok")
    \/ \E name \in ProfileNames : DeleteProfile(name, "ok")
    \/ \E content \in FileContents : FileReplaced(content)
    \/ \E name \in ProfileNames, content \in ProfileContents : ProfileReplaced(name, content)

\* the <<key, value>> pairs given to set() when file operations may fail
DiskSetInputs == { <<"opacity", Num(40)>>, <<"enable_fade", Bool(FALSE)>> }

\* the store when file operations may fail
DiskNext ==
    \/ \E kv \in DiskSetInputs, imm \in BOOLEAN, w \in WriteOutcomes :
           Set(kv[1], kv[2], imm, w)
    \/ \E w \in WriteOutcomes : Save(w)
    \/ \E w \in WriteOutcomes : SavePending(w)
    \/ \E r \in CallOutcomes : LoadCall(TRUE, r)
    \/ \E r \in CallOutcomes : NewManager(TRUE, r)
    \/ \E w \in WriteOutcomes : ExportSettings(w)
    \/ \E content \in {JsonDump(RecordOutOfRange), JsonDump(RecordHugeDensity), CorruptFile(1)},
          r \in CallOutcomes, w \in WriteOutcomes : ImportSettings(content, r, w)
    \/ \E data \in {ProfileWithVersion, RecordHugeDensity}, w \in WriteOutcomes :
           SaveProfile("night", data, w)
    \/ \E w \in WriteOutcomes : SaveProfileCurrent("night", w)
    \/ \E r \in CallOutcomes, w \in WriteOutcomes : LoadProfile("night", r, w)
    \/ \E l \in CallOutcomes : ListProfilesCall(l)
    \/ \E d \in CallOutcomes : DeleteProfile("night", d)

(***************************************************************************)
(* _migrate_settings as a function: a record and a starting version are    *)
(* chosen, the migration is applied, and then applied again, either with   *)
(* the same starting version or as to a record that is already current.    *)
(***************************************************************************)

Absent == [t |-> "absent", n |-> 0, s |-> "", k |-> {}, l |-> <<>>]

\* the record d with key bound to val, unless val is Absent
Opt(d, key, val) == IF val = Absent THEN d ELSE Put(d, key, val)

CustomHotkeys == Dict({<<"toggle", "Control+Alt+T">>})

\* records as releases 1 to 5 may have written them, and hand-edited ones
MigrationInputs ==
    { Opt(Opt(Opt(Opt(Opt(Opt(EmptyDict, "last_color", lc), "custom_color", cc),
                      "preset_name", pn), "density", de), "schedule", sc), "hotkeys", hk) :
        lc \in {Absent, Str("#FFD54F"), Str("")},
        cc \in {Absent, Str("#000000")},
        pn \in {Absent, Str("Yellow")},
        de \in {Absent, Num(120)},
        sc \in {Absent, ScheduleV4, ScheduleOn, Str("always")},
        hk \in {Absent, CustomHotkeys} }

NoResult == [ok |-> TRUE, rec |-> EmptyDict]

MigrateFirst ==
    /\ m_pc = "input"
    /\ m_out' = MigrateSettings(m_in, m_from)
    /\ m_pc' = "once"
    /\ UNCHANGED <<m_in, m_from, m_out2>>
    /\ UNCHANGED <<settingsVars, overlayVars, appVars>>

\* the same migration applied to its own result
MigrateAgain ==
    /\ m_pc = "once"
    /\ m_out2' = MigrateSettings(m_out.rec, m_from)
    /\ m_pc' = "twice"
    /\ UNCHANGED <<m_in, m_from, m_out>>
    /\ UNCHANGED <<settingsVars, overlayVars, appVars>>

\* the migrated record migrated as a record of the current version
MigrateAsCurrent ==
    /\ m_pc = "once"
    /\ m_out2' = MigrateSettings(m_out.rec, SETTINGS_VERSION)
    /\ m_pc' = "current"
    /\ UNCHANGED <<m_in, m_from, m_out>>
    /\ UNCHANGED <<settingsVars, overlayVars, appVars>>

MigrateNext == MigrateFirst \/ MigrateAgain \/ MigrateAsCurrent

(***************************************************************************)
(* OverlayManager._apply_density(hex_color, density) on character          *)
(* sequences; density in hundredths                                        *)
(***************************************************************************)
HexDigits == <<"0", "1", "2", "3", "4", "5", "6", "7", "8", "9", "a", "b", "c", "d", "e", "f">>

UpperHexDigits == <<"A", "B", "C", "D", "E", "F">>

IsHexChar(ch) ==
    \/ \E i \in 1..16 : HexDigits[i] = ch
    \/ \E i \in 1..6 : UpperHexDigits[i] = ch

\* the value of one hexadecimal digit, in either case
HexVal(ch) ==
    IF \E i \in 1..16 : HexDigits[i] = ch
    THEN (CHOOSE i \in 1..16 : HexDigits[i] = ch) - 1
    ELSE (CHOOSE i \in 1..6 : UpperHexDigits[i] = ch) + 9

\* hex_color.lstrip('#')
RECURSIVE LStripHash(_)
LStripHash(cs) ==
    IF cs # <<>> /\ Head(cs) = "#" THEN LStripHash(Tail(cs)) ELSE cs

\* int(h[0:2], 16), int(h[2:4], 16), int(h[4:6], 16) raise ValueError unless
\* each slice is non-empty and holds hex digits (the colours modelled carry
\* no sign, blank or underscore)
ParsesAsColor(h) == Len(h) >= 5 /\ \A i \in 1..Min(6, Len(h)) : IsHexChar(h[i])

\* int(h[i-1:i+1], 16): a slice cut short by the end of the string has one digit
Channel(h, i) ==
    IF i + 1 <= Len(h) THEN 16 * HexVal(h[i]) + HexVal(h[i + 1]) ELSE HexVal(h[i])

\* int(x) of a float x = a / b with b > 0: truncation toward zero
TruncDiv(a, b) == IF a >= 0 THEN a \div b ELSE -((-a) \div b)

\* density < 1.0: int(c * factor + 255 * (1 - factor)), factor = density
BlendTowardWhite(c, density) == TruncDiv(c * density + 255 * (100 - density), 100)

\* density >= 1.0: int(c + (c - grey) * factor), factor = (density - 1.0) * 2
PushFromGrey(c, grey, density) == TruncDiv(c * 100 + (c - grey) * 2 * (density - 100), 100)

ClampChannel(c) == Max(0, Min(255, c))

\* f'{c:02x}'
TwoHex(c) == <<HexDigits[(c \div 16) + 1], HexDigits[(c % 16) + 1]>>

ApplyDensity(hex_color, density) ==
    LET h == LStripHash(hex_color)
    IN  IF ~ParsesAsColor(h)
        THEN h   \* except: return hex_color, which is the stripped string by now
        ELSE LET r == Channel(h, 1)
                 g == Channel(h, 3)
                 b == Channel(h, 5)
                 grey == (r + g + b) \div 3
                 r2 == IF density < 100 THEN BlendTowardWhite(r, density)
                                        ELSE PushFromGrey(r, grey, density)
                 g2 == IF density < 100 THEN BlendTowardWhite(g, density)
                                        ELSE PushFromGrey(g, grey, density)
                 b2 == IF density < 100 THEN BlendTowardWhite(b, density)
                                        ELSE PushFromGrey(b, grey, density)
             IN  <<"#">> \o TwoHex(ClampChannel(r2)) \o TwoHex(ClampChannel(g2))
                         \o TwoHex(ClampChannel(b2))

\* Tk accepts '#' followed by 3, 6, 9 or 12 hex digits, or a colour name;
\* configure(bg=...) raises TclError on anything else
TkColorNames == {<<"r", "e", "d">>}

TkAcceptsColor(cs) ==
    \/ /\ Len(cs) \in {4, 7, 10, 13}
       /\ cs[1] = "#"
       /\ \A i \in 2..Len(cs) : IsHexChar(cs[i])
    \/ cs \in TkColorNames

(***************************************************************************)
(* OverlayManager.  The UI thread runs one handler at a time, so each      *)
(* public call is one action; a watchdog thread takes its steps between    *)
(* handlers.  The operations are functions of the manager state            *)
(*   o = [windows, next_id, overlay_windows, is_active, current_color,     *)
(*        current_opacity, current_density, monitoring, watchdogs,         *)
(*        ui_queue]                                                        *)
(* because create() runs pending UI callbacks from inside (overlay.update) *)
(* and one of them may be create() again.                                  *)
(***************************************************************************)

\* Bound: number of UI-thread calls and external events in a run
MaxOverlayOps == 3

\* Bound: number of monitors in a layout
MaxMonitors == 2

\* Bound: number of monitor_loop threads alive at once
MaxWatchdogs == 2

\* Bound: number of callbacks waiting in the UI loop
MaxPending == 1

\* monitor i of a row of 1920x1080 displays, as MonitorDetector reports it
Monitor(i) == [x |-> 1920 * (i - 1), y |-> 0, width |-> 1920, height |-> 1080]

Layouts == { [i \in 1..n |-> Monitor(i)] : n \in 1..MaxMonitors }

\* per monitor: "ok", "ct_fail" (_make_click_through returns False) or
\* "no_window" (tk.Toplevel raises)
Outcomes(monitors) == [1..Len(monitors) -> {"ok", "ct_fail", "no_window"}]

\* the <<color, opacity, density>> given to create(): the scenario of the
\* specification, a lighter and denser variant, and a colour that does not parse
CreateInputs == {<<"#FFD54F", 30, 100>>, <<"#FFD54F", 60, 50>>, <<"#GGGGGG", 30, 100>>}

\* the background of a Toplevel that was never configured
TkDefaultBackground == <<"S", "y", "s", "t", "e", "m">>

Range(seq) == {seq[i] : i \in 1..Len(seq)}

Manager ==
    [windows |-> windows, next_id |-> next_id, overlay_windows |-> overlay_windows,
     is_active |-> is_active, current_color |-> current_color,
     current_opacity |-> current_opacity, current_density |-> current_density,
     monitoring |-> monitoring, watchdogs |-> watchdogs, ui_queue |-> ui_queue,
     fade_animation_id |-> fade_animation_id, timers |-> timers, next_timer |-> next_timer]

\* Toplevel.destroy() of the windows in ids; a window already gone raises
\* TclError, which every caller swallows
DestroyWindows(wins, ids) == [id \in (DOMAIN wins) \ ids |-> wins[id]]

\* OverlayManager.destroy()
DestroyOp(o) ==
    [o EXCEPT !.monitoring = FALSE,
              !.windows = DestroyWindows(o.windows, Range(o.overlay_windows)),
              !.overlay_windows = <<>>,
              !.is_active = FALSE]

\* OverlayManager._start_monitoring()
StartMonitoring(o) ==
    IF o.monitoring
    THEN o
    ELSE [o EXCEPT !.monitoring = TRUE,
                   !.watchdogs = Append(@, [pc |-> "test", valid_windows |-> <<>>])]

\* the windows of ids up to the first that no longer exists: a Tk call on a
\* destroyed window raises TclError and ends the loop
RECURSIVE UpToFirstDead(_, _)
UpToFirstDead(wins, ids) ==
    IF ids = <<>> \/ Head(ids) \notin DOMAIN wins
    THEN {}
    ELSE {Head(ids)} \cup UpToFirstDead(wins, Tail(ids))

\* show() without fade
ShowOp(o) ==
    IF o.overlay_windows = <<>>
    THEN o
    ELSE LET reached == UpToFirstDead(o.windows, o.overlay_windows)
             o1 == [o EXCEPT !.windows = [w \in DOMAIN @ |->
                                IF w \in reached
                                THEN [@[w] EXCEPT !.shown = TRUE, !.alpha = o.current_opacity]
                                ELSE @[w]]]
         IN  IF reached = Range(o.overlay_windows)
             THEN StartMonitoring([o1 EXCEPT !.is_active = TRUE])
             ELSE o1

\* hide() without fade
HideOp(o) ==
    IF o.overlay_windows = <<>>
    THEN o
    ELSE LET reached == UpToFirstDead(o.windows, o.overlay_windows)
             o1 == [o EXCEPT !.windows = [w \in DOMAIN @ |->
                                IF w \in reached THEN [@[w] EXCEPT !.shown = FALSE]
                                                 ELSE @[w]]]
         IN  IF reached = Range(o.overlay_windows)
             THEN [o1 EXCEPT !.is_active = FALSE]
             ELSE o1

\* the windows of the tracked list that still exist: inside a loop whose body
\* is its own try block, a destroyed window raises and the loop goes on
Reachable(o) == Range(o.overlay_windows) \cap DOMAIN o.windows

\* OverlayManager.update_opacity(opacity)
UpdateOpacityOp(o, opacity) ==
    LET o1 == [o EXCEPT !.current_opacity = opacity]
    IN  IF o1.overlay_windows # <<>> /\ o1.is_active
        THEN [o1 EXCEPT !.windows = [w \in DOMAIN @ |->
                            IF w \in Reachable(o1) THEN [@[w] EXCEPT !.alpha = opacity]
                                                   ELSE @[w]]]
        ELSE o1

\* OverlayManager.update_density(density)
UpdateDensityOp(o, density) ==
    LET o1 == [o EXCEPT !.current_density = density]
        adjusted_color == ApplyDensity(Chars(o1.current_color), density)
    IN  IF /\ o1.overlay_windows # <<>>
           /\ o1.is_active
           /\ o1.current_color # ""
           /\ TkAcceptsColor(adjusted_color)
        THEN [o1 EXCEPT !.windows = [w \in DOMAIN @ |->
                            IF w \in Reachable(o1) THEN [@[w] EXCEPT !.bg = adjusted_color]
                                                   ELSE @[w]]]
        ELSE o1

\* steps = max(1, int(duration * 30)) with the default duration of 0.3
FadeSteps == Max(1, (3 * 30) \div 10)

\* root.after(33, lambda: animate(step + 1)): the id is kept in fade_animation_id
After(o, fade, step, opacity) ==
    [o EXCEPT !.timers = @ \cup {[id |-> o.next_timer, fade |-> fade, step |-> step,
                                  opacity |-> opacity]},
              !.fade_animation_id = o.next_timer,
              !.next_timer = @ + 1]

\* if self.fade_animation_id: self.root.after_cancel(self.fade_animation_id)
AfterCancel(o) == [o EXCEPT !.timers = {t \in @ : t.id # o.fade_animation_id}]

\* fade_in.animate(step) with the target_opacity its closure captured
AnimateIn(o, step, target_opacity) ==
    IF step > FadeSteps
    THEN LET o1 == [o EXCEPT !.windows = [w \in DOMAIN @ |->
                                 IF w \in Reachable(o)
                                 THEN [@[w] EXCEPT !.alpha = target_opacity, !.shown = TRUE]
                                 ELSE @[w]],
                             !.is_active = TRUE]
         IN  [StartMonitoring(o1) EXCEPT !.fade_animation_id = 0]
    ELSE LET opacity == (target_opacity * step) \div FadeSteps
             o1 == [o EXCEPT !.windows = [w \in DOMAIN @ |->
                                 IF w \in Reachable(o)
                                 THEN [@[w] EXCEPT !.alpha = opacity,
                                                   !.shown = (step = 1) \/ @]
                                 ELSE @[w]]]
         IN  After(o1, "in", step + 1, target_opacity)

\* fade_out.animate(step) with the start_opacity its closure captured
AnimateOut(o, step, start_opacity) ==
    IF step > FadeSteps
    THEN [o EXCEPT !.windows = [w \in DOMAIN @ |->
                          IF w \in Reachable(o) THEN [@[w] EXCEPT !.shown = FALSE]
                                                ELSE @[w]],
                   !.is_active = FALSE,
                   !.fade_animation_id = 0]
    ELSE LET opacity == (start_opacity * (FadeSteps - step)) \div FadeSteps
             o1 == [o EXCEPT !.windows = [w \in DOMAIN @ |->
                                 IF w \in Reachable(o) THEN [@[w] EXCEPT !.alpha = opacity]
                                                       ELSE @[w]]]
         IN  After(o1, "out", step + 1, start_opacity)

\* OverlayManager.fade_in()
FadeInOp(o) ==
    IF o.overlay_windows = <<>>
    THEN o
    ELSE AnimateIn(AfterCancel(o), 0, o.current_opacity)

\* OverlayManager.fade_out()
FadeOutOp(o) ==
    IF o.overlay_windows = <<>>
    THEN o
    ELSE AnimateOut(AfterCancel(o), 0, o.current_opacity)

\* OverlayManager.show(use_fade)
ShowCall(o, use_fade) ==
    IF o.overlay_windows = <<>>
    THEN o
    ELSE IF use_fade /\ o.current_opacity > 0 THEN FadeInOp(o) ELSE ShowOp(o)

\* OverlayManager.hide(use_fade)
HideCall(o, use_fade) ==
    IF o.overlay_windows = <<>>
    THEN o
    ELSE IF use_fade /\ o.is_active THEN FadeOutOp(o) ELSE HideOp(o)

RECURSIVE CreateOp(_, _, _, _, _, _)
RECURSIVE CreateLoop(_, _, _, _, _, _, _)
RECURSIVE RunPending(_, _, _)

\* overlay.update(): Tk runs the callbacks that are due; a pending callback is
\* lambda: self.create(self.current_color, self.current_opacity,
\* self.current_density) from the watchdog, or overlay.show or overlay.hide
\* from the schedule loop
RunPending(o, monitors, outcome) ==
    IF o.ui_queue = <<>>
    THEN o
    ELSE LET popped == [o EXCEPT !.ui_queue = Tail(@)]
             ran == CASE Head(o.ui_queue) = "create" ->
                            CreateOp(popped, popped.current_color, popped.current_opacity,
                                     popped.current_density, monitors, outcome).o
                      [] Head(o.ui_queue) = "show" -> ShowCall(popped, TRUE)
                      [] OTHER -> HideCall(popped, TRUE)
         IN  RunPending(ran, monitors, outcome)

\* the body of `for monitor in monitors`, from monitor i on
CreateLoop(o, i, color, opacity, density, monitors, outcome) ==
    IF i > Len(monitors)
    THEN o
    ELSE IF outcome[i] = "no_window"
    THEN CreateLoop(o, i + 1, color, opacity, density, monitors, outcome)
    ELSE LET id == o.next_id
             adjusted == ApplyDensity(Chars(color), density)
             made == [x |-> monitors[i].x, y |-> monitors[i].y,
                      width |-> monitors[i].width, height |-> monitors[i].height,
                      alpha |-> opacity, bg |-> TkDefaultBackground,
                      shown |-> TRUE, click_through |-> FALSE]
             o1 == [o EXCEPT !.next_id = id + 1,
                             !.windows = [w \in (DOMAIN @) \cup {id} |->
                                            IF w = id THEN made ELSE @[w]]]
         IN  IF ~TkAcceptsColor(adjusted)
             THEN \* configure(bg=...) raises: logged, the Toplevel stays
                  CreateLoop(o1, i + 1, color, opacity, density, monitors, outcome)
             ELSE LET o2 == [o1 EXCEPT !.windows[id].bg = adjusted]
                      o3 == RunPending(o2, monitors, outcome)
                      o4 == IF outcome[i] = "ok"
                            THEN [o3 EXCEPT !.windows[id].click_through = TRUE,
                                            !.overlay_windows = Append(@, id)]
                            ELSE [o3 EXCEPT !.windows = DestroyWindows(@, {id})]
                  IN  CreateLoop(o4, i + 1, color, opacity, density, monitors, outcome)

\* OverlayManager.create(color, opacity, density): [o, ret]
CreateOp(o, color, opacity, density, monitors, outcome) ==
    LET o1 == DestroyOp([o EXCEPT !.current_color = color,
                                  !.current_opacity = opacity,
                                  !.current_density = density])
        o2 == CreateLoop(o1, 1, color, opacity, density, monitors, outcome)
    IN  IF o2.overlay_windows = <<>>
        THEN [o |-> o2, ret |-> "False"]
        ELSE [o |-> StartMonitoring([o2 EXCEPT !.is_active = TRUE]), ret |-> "True"]

NoOverlayCall ==
    [op |-> "none", ret |-> "none", color |-> "", opacity |-> 0, density |-> 0,
     monitors |-> <<>>, ok |-> {}, pre |-> {}, pending |-> 0, fading |-> FALSE]

\* the manager variables take the fields of o
Becomes(o) ==
    /\ Len(o.watchdogs) <= MaxWatchdogs
    /\ windows' = o.windows
    /\ next_id' = o.next_id
    /\ overlay_windows' = o.overlay_windows
    /\ is_active' = o.is_active
    /\ current_color' = o.current_color
    /\ current_opacity' = o.current_opacity
    /\ current_density' = o.current_density
    /\ monitoring' = o.monitoring
    /\ watchdogs' = o.watchdogs
    /\ ui_queue' = o.ui_queue
    /\ fade_animation_id' = o.fade_animation_id
    /\ timers' = o.timers
    /\ next_timer' = o.next_timer

\* fading: an animate callback was pending when the call was made
OverlayCall(op, ret) == [NoOverlayCall EXCEPT !.op = op, !.ret = ret, !.fading = timers # {}]

\* create(color, opacity, density) called by a UI handler
Create(color, opacity, density, monitors, outcome) ==
    /\ oops < olimit
    /\ LET res == CreateOp(Manager, color, opacity, density, monitors, outcome)
       IN  /\ Becomes(res.o)
           /\ olast' = [op |-> "create", ret |-> res.ret, color |-> color,
                        opacity |-> opacity, density |-> density, monitors |-> monitors,
                        ok |-> {i \in 1..Len(monitors) : outcome[i] = "ok"},
                        pre |-> DOMAIN windows, pending |-> Len(ui_queue),
                        fading |-> timers # {}]
    /\ oops' = oops + 1
    /\ UNCHANGED <<settingsVars, migrateVars, appVars, olimit>>

Destroy ==
    /\ oops < olimit
    /\ Becomes(DestroyOp(Manager))
    /\ olast' = OverlayCall("destroy", "none")
    /\ oops' = oops + 1
    /\ UNCHANGED <<settingsVars, migrateVars, appVars, olimit>>

Show ==
    /\ oops < olimit
    /\ Becomes(ShowOp(Manager))
    /\ olast' = OverlayCall("show", "none")
    /\ oops' = oops + 1
    /\ UNCHANGED <<settingsVars, migrateVars, appVars, olimit>>

Hide ==
    /\ oops < olimit
    /\ Becomes(HideOp(Manager))
    /\ olast' = OverlayCall("hide", "none")
    /\ oops' = oops + 1
    /\ UNCHANGED <<settingsVars, migrateVars, appVars, olimit>>

\* the UI loop runs the callback at the head of the queue: the corrective
\* create() that a watchdog asked for
RunCallback(monitors, outcome) ==
    /\ oops < olimit
    /\ ui_queue # <<>>
    /\ Head(ui_queue) = "create"
    /\ LET popped == [Manager EXCEPT !.ui_queue = Tail(@)]
           res == CreateOp(popped, current_color, current_opacity, current_density,
                           monitors, outcome)
       IN  /\ Becomes(res.o)
           /\ olast' = [op |-> "callback", ret |-> res.ret, color |-> current_color,
                        opacity |-> current_opacity, density |-> current_density,
                        monitors |-> monitors,
                        ok |-> {i \in 1..Len(monitors) : outcome[i] = "ok"},
                        pre |-> DOMAIN windows, pending |-> Len(ui_queue) - 1,
                        fading |-> timers # {}]
    /\ oops' = oops + 1
    /\ UNCHANGED <<settingsVars, migrateVars, appVars, olimit>>

\* windows are destroyed from outside the manager
ExternalDestroy(ids) ==
    /\ oops < olimit
    /\ ids # {}
    /\ windows' = DestroyWindows(windows, ids)
    /\ olast' = OverlayCall("external_destroy", "none")
    /\ oops' = oops + 1
    /\ UNCHANGED <<next_id, overlay_windows, is_active, current_color, current_opacity,
                   current_density, monitoring, watchdogs, ui_queue, fade_animation_id,
                   timers, next_timer>>
    /\ UNCHANGED <<settingsVars, migrateVars, appVars, olimit>>

\* show() with the fade that enable_fade = True selects
ShowFade ==
    /\ oops < olimit
    /\ Becomes(ShowCall(Manager, TRUE))
    /\ olast' = OverlayCall("show_fade", "none")
    /\ oops' = oops + 1
    /\ UNCHANGED <<settingsVars, migrateVars, appVars, olimit>>

\* hide() with the fade that enable_fade = True selects
HideFade ==
    /\ oops < olimit
    /\ Becomes(HideCall(Manager, TRUE))
    /\ olast' = OverlayCall("hide_fade", "none")
    /\ oops' = oops + 1
    /\ UNCHANGED <<settingsVars, migrateVars, appVars, olimit>>

\* the UI loop runs the animate callback of timer t, 33 ms after it was scheduled
FadeTick(t) ==
    /\ t \in timers
    /\ LET fired == [Manager EXCEPT !.timers = @ \ {t}]
       IN  Becomes(IF t.fade = "in" THEN AnimateIn(fired, t.step, t.opacity)
                                    ELSE AnimateOut(fired, t.step, t.opacity))
    /\ UNCHANGED <<olast, oops>>
    /\ UNCHANGED <<settingsVars, migrateVars, appVars, olimit>>

UpdateOpacity(opacity) ==
    /\ oops < olimit
    /\ Becomes(UpdateOpacityOp(Manager, opacity))
    /\ olast' = [OverlayCall("update_opacity", "none") EXCEPT !.opacity = opacity]
    /\ oops' = oops + 1
    /\ UNCHANGED <<settingsVars, migrateVars, appVars, olimit>>

UpdateDensity(density) ==
    /\ oops < olimit
    /\ Becomes(UpdateDensityOp(Manager, density))
    /\ olast' = [OverlayCall("update_density", "none") EXCEPT !.density = density]
    /\ oops' = oops + 1
    /\ UNCHANGED <<settingsVars, migrateVars, appVars, olimit>>

(***************************************************************************)
(* monitor_loop, thread t of watchdogs                                     *)
(***************************************************************************)
RemoveAt(seq, t) == SubSeq(seq, 1, t - 1) \o SubSeq(seq, t + 1, Len(seq))

\* while self.monitoring and self.overlay_windows
WatchdogTest(t) ==
    /\ watchdogs[t].pc = "test"
    /\ IF monitoring /\ overlay_windows # <<>>
       THEN watchdogs' = [watchdogs EXCEPT ![t].pc = "scan"]
       ELSE watchdogs' = RemoveAt(watchdogs, t)
    /\ UNCHANGED <<windows, next_id, overlay_windows, is_active, current_color,
                   current_opacity, current_density, monitoring, ui_queue, olast, oops,
                   fade_animation_id, timers, next_timer>>
    /\ UNCHANGED <<settingsVars, migrateVars, appVars, olimit>>

\* the for loop: valid_windows collects the windows that winfo_exists
WatchdogScan(t) ==
    /\ watchdogs[t].pc = "scan"
    /\ watchdogs' = [watchdogs EXCEPT
                       ![t].pc = "decide",
                       ![t].valid_windows =
                            SelectSeq(overlay_windows, LAMBDA id : id \in DOMAIN windows)]
    /\ UNCHANGED <<windows, next_id, overlay_windows, is_active, current_color,
                   current_opacity, current_density, monitoring, ui_queue, olast, oops,
                   fade_animation_id, timers, next_timer>>
    /\ UNCHANGED <<settingsVars, migrateVars, appVars, olimit>>

\* if len(valid_windows) < len(self.overlay_windows) and self.is_active and
\* self.current_color: prune, and ask the UI loop for create() when none is left
WatchdogDecide(t) ==
    /\ watchdogs[t].pc = "decide"
    /\ LET valid_windows == watchdogs[t].valid_windows
           prune == /\ Len(valid_windows) < Len(overlay_windows)
                    /\ is_active
                    /\ current_color # ""
           recreate == prune /\ valid_windows = <<>>
       IN  /\ recreate => Len(ui_queue) < MaxPending
           /\ overlay_windows' = IF prune THEN valid_windows ELSE overlay_windows
           /\ ui_queue' = IF recreate THEN Append(ui_queue, "create") ELSE ui_queue
    /\ watchdogs' = [watchdogs EXCEPT ![t].pc = "assign"]
    /\ UNCHANGED <<windows, next_id, is_active, current_color, current_opacity,
                   current_density, monitoring, olast, oops, fade_animation_id, timers,
                   next_timer>>
    /\ UNCHANGED <<settingsVars, migrateVars, appVars, olimit>>

\* self.overlay_windows = valid_windows, then time.sleep(1): the thread is
\* back at the loop test, which it takes when the sleep is over
WatchdogAssign(t) ==
    /\ watchdogs[t].pc = "assign"
    /\ overlay_windows' = watchdogs[t].valid_windows
    /\ watchdogs' = [watchdogs EXCEPT ![t].pc = "test", ![t].valid_windows = <<>>]
    /\ UNCHANGED <<windows, next_id, is_active, current_color, current_opacity,
                   current_density, monitoring, ui_queue, olast, oops, fade_animation_id,
                   timers, next_timer>>
    /\ UNCHANGED <<settingsVars, migrateVars, appVars, olimit>>

OverlayNext ==
    \/ \E input \in CreateInputs, monitors \in Layouts :
          \E outcome \in Outcomes(monitors) :
             Create(input[1], input[2], input[3], monitors, outcome)
    \/ Destroy
    \/ Show
    \/ Hide
    \/ \E monitors \in Layouts : \E outcome \in Outcomes(monitors) :
          RunCallback(monitors, outcome)
    \/ \E ids \in SUBSET (DOMAIN windows) : ExternalDestroy(ids)
    \/ \E t \in 1..Len(watchdogs) : WatchdogTest(t)
    \/ \E t \in 1..Len(watchdogs) : WatchdogScan(t)
    \/ \E t \in 1..Len(watchdogs) : WatchdogDecide(t)
    \/ \E t \in 1..Len(watchdogs) : WatchdogAssign(t)

\* calls explored when the overlay is retuned while shown or hidden
MaxSurfaceOps == 4

\* the <<color, opacity, density>> given to create() before the sliders move
SurfaceInputs == {<<"#FFD54F", 30, 100>>, <<"#ffd54f", 60, 50>>}

\* the values the opacity and density sliders deliver
OpacityInputs == {30, 60}

DensityInputs == {50, 100}

\* create, hide, show without fade and the two slider updates, all within the
\* one-second sleep of the watchdog threads that create() and show() start
SurfaceNext ==
    \/ \E input \in SurfaceInputs, monitors \in Layouts :
          \E outcome \in Outcomes(monitors) :
             Create(input[1], input[2], input[3], monitors, outcome)
    \/ Show
    \/ Hide
    \/ \E opacity \in OpacityInputs : UpdateOpacity(opacity)
    \/ \E density \in DensityInputs : UpdateDensity(density)

\* calls explored when fades are in flight
MaxFadeOps == 3

\* the <<color, opacity, density>> given to create() before a fade: an opacity
\* of 0.27, whose nine fade steps are whole hundredths
FadeInputs == {<<"#FFD54F", 27, 100>>}

\* create, destroy, show and hide with and without fade, the animate callbacks
\* and the watchdog threads
FadeNext ==
    \/ \E input \in FadeInputs, monitors \in Layouts :
          \E outcome \in Outcomes(monitors) :
             Create(input[1], input[2], input[3], monitors, outcome)
    \/ Destroy
    \/ Show
    \/ Hide
    \/ ShowFade
    \/ HideFade
    \/ \E t \in timers : FadeTick(t)
    \/ \E t \in 1..Len(watchdogs) : WatchdogTest(t)
    \/ \E t \in 1..Len(watchdogs) : WatchdogScan(t)
    \/ \E t \in 1..Len(watchdogs) : WatchdogDecide(t)
    \/ \E t \in 1..Len(watchdogs) : WatchdogAssign(t)

\* calls and events explored when surfaces are destroyed from outside
MaxWatchdogOps == 3

\* every monitor gets its surface and click-through enabling succeeds
AllOk(monitors) == [i \in 1..Len(monitors) |-> "ok"]

\* the steps of watchdog thread t
WatchdogThread(t) ==
    /\ t <= Len(watchdogs)
    /\ \/ WatchdogTest(t)
       \/ WatchdogScan(t)
       \/ WatchdogDecide(t)
       \/ WatchdogAssign(t)

\* the UI loop runs the create() a watchdog queued, and click-through
\* enabling succeeds
RunCallbackOk == \E monitors \in Layouts : RunCallback(monitors, AllOk(monitors))

\* the overlay is created, surfaces are destroyed from outside while the call
\* that repairs them can still be explored, and the watchdog threads run
WatchdogNext ==
    \/ \E input \in SurfaceInputs, monitors \in Layouts :
          oops = 0 /\ Create(input[1], input[2], input[3], monitors, AllOk(monitors))
    \/ \E ids \in SUBSET (DOMAIN windows) : oops + 1 < olimit /\ ExternalDestroy(ids)
    \/ RunCallbackOk
    \/ \E t \in 1..MaxWatchdogs : WatchdogThread(t)

(***************************************************************************)
(* ScheduleManager: schedule_loop polls once a minute                      *)
(***************************************************************************)
\* dict.get on a nested dict value
NestedGet(v, key, default) ==
    IF \E it \in v.k : it[1] = key
    THEN (CHOOSE it \in v.k : it[1] = key)[2]
    ELSE default

\* dt_time.fromisoformat(x) as minutes since midnight; -1 where it raises
FromIsoformat(x) ==
    CASE x = "07:00" -> 7 * 60
      [] x = "08:00" -> 8 * 60
      [] x = "09:00" -> 9 * 60
      [] x = "10:00" -> 10 * 60
      [] x = "11:00" -> 11 * 60
      [] x = "12:00" -> 12 * 60
      [] x = "13:00" -> 13 * 60
      [] x = "17:00" -> 17 * 60
      [] x = "18:00" -> 18 * 60
      [] x = "19:00" -> 19 * 60
      [] OTHER       -> -1

\* datetime.now().time() at the successive polls
PollTimes == <<"07:00", "10:00", "12:00", "19:00">>

\* a plausible slip: a window whose start is after its end is taken to wrap
\* around midnight
InWindowWraps(schedule, now) ==
    LET start_time == FromIsoformat(NestedGet(schedule, "start_time", "09:00"))
        end_time == FromIsoformat(NestedGet(schedule, "end_time", "17:00"))
    IN  IF start_time <= end_time
        THEN start_time <= FromIsoformat(now) /\ FromIsoformat(now) <= end_time
        ELSE start_time <= FromIsoformat(now) \/ FromIsoformat(now) <= end_time

\* start_time <= now <= end_time
InWindow(schedule, now) ==
    /\ FromIsoformat(NestedGet(schedule, "start_time", "09:00")) <= FromIsoformat(now)
    /\ FromIsoformat(now) <= FromIsoformat(NestedGet(schedule, "end_time", "17:00"))

\* what one pass of the loop body gives to root.after(0, ...)
ScheduleDecision(schedule, now, active, color) ==
    IF \/ FromIsoformat(NestedGet(schedule, "start_time", "09:00")) < 0
       \/ FromIsoformat(NestedGet(schedule, "end_time", "17:00")) < 0
    THEN "none"
    ELSE IF InWindow(schedule, now)
    THEN IF ~active /\ color # "" THEN "show" ELSE "none"
    ELSE IF active THEN "hide" ELSE "none"

WindowState(schedule, now) == IF InWindow(schedule, now) THEN "in" ELSE "out"

\* schedule.get('enabled', False)
ScheduleEnabled == NestedGet(Get(settings, "schedule", Dict({})), "enabled", "false") = "true"

\* ScheduleManager.start()
ScheduleStart ==
    /\ ~running
    /\ ScheduleEnabled
    /\ running' = TRUE
    /\ UNCHANGED <<tick, decision, in_window, twin_schedule, twin_decision>>
    /\ UNCHANGED <<settingsVars, migrateVars, overlayVars, debounceVars, densityVars>>
    /\ UNCHANGED sysVars

\* one pass of schedule_loop; the callbacks of the pass before, given to
\* root.after(0, ...) a minute ago, and their fades have run
ScheduleTick ==
    /\ running
    /\ tick < Len(PollTimes)
    /\ ui_queue = <<>>
    /\ timers = {}
    /\ IF ~ScheduleEnabled
       THEN /\ running' = FALSE
            /\ UNCHANGED <<tick, decision, in_window, twin_decision, ui_queue>>
       ELSE LET schedule == Get(settings, "schedule", Dict({}))
                now == PollTimes[tick + 1]
                given == ScheduleDecision(schedule, now, is_active, current_color)
            IN  /\ tick' = tick + 1
                /\ decision' = given
                /\ twin_decision' =
                       ScheduleDecision(twin_schedule, now, is_active, current_color)
                /\ in_window' = WindowState(schedule, now)
                /\ ui_queue' = IF given = "none" THEN ui_queue ELSE Append(ui_queue, given)
                /\ UNCHANGED running
    /\ UNCHANGED twin_schedule
    /\ UNCHANGED <<windows, next_id, overlay_windows, is_active, current_color,
                   current_opacity, current_density, monitoring, watchdogs,
                   fade_animation_id, timers, next_timer, olast, oops, olimit>>
    /\ UNCHANGED <<settingsVars, migrateVars, debounceVars, densityVars>>
    /\ UNCHANGED sysVars

\* the UI loop runs the overlay.show or overlay.hide that the schedule loop
\* gave it; use_fade is None, so enable_fade (True) decides
RunScheduled ==
    /\ ui_queue # <<>>
    /\ Head(ui_queue) \in {"show", "hide"}
    /\ LET popped == [Manager EXCEPT !.ui_queue = Tail(@)]
       IN  Becomes(IF Head(ui_queue) = "show" THEN ShowCall(popped, TRUE)
                                              ELSE HideCall(popped, TRUE))
    /\ olast' = OverlayCall(IF Head(ui_queue) = "show" THEN "show_fade" ELSE "hide_fade",
                            "none")
    /\ UNCHANGED oops
    /\ UNCHANGED <<settingsVars, migrateVars, appVars, olimit>>

\* user calls explored next to the schedule engine
MaxScheduleOps == 2

\* a schedule that is enabled, with its window and its use_sunset flag
Schedule(start_time, end_time, use_sunset) ==
    Dict({<<"enabled", "true">>, <<"start_time", start_time>>, <<"end_time", end_time>>,
          <<"use_sunset", use_sunset>>, <<"location", "55.9533,-3.1883,Europe/London">>})

\* two daytime windows and an overnight one
ScheduleWindows == {<<"09:00", "17:00">>, <<"11:00", "13:00">>, <<"18:00", "08:00">>}

\* the user picks a colour or hides the overlay, the schedule loop polls, and
\* the UI loop runs what it was given
ScheduleNext ==
    \/ \E input \in FadeInputs, monitors \in Layouts :
          \E outcome \in Outcomes(monitors) :
             Create(input[1], input[2], input[3], monitors, outcome)
    \/ HideFade
    \/ ScheduleStart
    \/ ScheduleTick
    \/ RunScheduled
    \/ \E t \in timers : FadeTick(t)

(***************************************************************************)
(* Debounced saves: on_opacity_change, on_density_change and               *)
(* _on_window_configure                                                    *)
(***************************************************************************)
\* slider and geometry changes explored
MaxChanges == 4

DebounceState ==
    [save_timers |-> save_timers, save_timer_id |-> save_timer_id,
     next_save_timer |-> next_save_timer]

\* the next timer is scheduled and the one before is left to fire
DebounceNoCancel(d, kind) ==
    [d EXCEPT !.save_timers = @ \cup {[id |-> d.next_save_timer, kind |-> kind]},
              !.save_timer_id[kind] = d.next_save_timer,
              !.next_save_timer = @ + 1]

\* if hasattr(self, '_<kind>_save_timer'): self.root.after_cancel(...);
\* self._<kind>_save_timer = self.root.after(..., self.settings.save_pending)
Debounce(d, kind) ==
    [d EXCEPT !.save_timers = {t \in @ : t.id # d.save_timer_id[kind]}
                                 \cup {[id |-> d.next_save_timer, kind |-> kind]},
              !.save_timer_id[kind] = d.next_save_timer,
              !.next_save_timer = @ + 1]

\* settings.set(key, val, save_immediately=False) and the debounce that follows
\* it in the three handlers
ChangeAndDebounce(key, val) ==
    /\ ops < MaxChanges
    /\ settings' = Put(settings, key, val)
    /\ save_pending' = TRUE
    /\ io_error' = "none"
    /\ last' = Call("set", key, val, "", FALSE, "none")
    /\ ops' = ops + 1
    /\ LET d == Debounce(DebounceState, key)
       IN  /\ save_timers' = d.save_timers
           /\ save_timer_id' = d.save_timer_id
           /\ next_save_timer' = d.next_save_timer
    /\ burst' = IF save_timers = {}
                THEN [kinds |-> {key}, writes |-> 0]
                ELSE [burst EXCEPT !.kinds = @ \cup {key}]
    /\ UNCHANGED <<settings_file, backup_file, profiles, export_file>>
    /\ UNCHANGED <<migrateVars, scheduleVars, densityVars, olimit>>
    /\ UNCHANGED sysVars

\* on_opacity_change(value): value is the slider's percentage
OnOpacityChange(value) ==
    /\ ChangeAndDebounce("opacity", Num(value))
    /\ Becomes(UpdateOpacityOp(Manager, value))
    /\ olast' = [OverlayCall("update_opacity", "none") EXCEPT !.opacity = value]
    /\ oops' = oops + 1

\* on_density_change(value)
OnDensityChange(value) ==
    /\ ChangeAndDebounce("density", Num(value))
    /\ Becomes(UpdateDensityOp(Manager, value))
    /\ olast' = [OverlayCall("update_density", "none") EXCEPT !.density = value]
    /\ oops' = oops + 1

\* _on_window_configure(event) for the root window; geometry is the
\* <<width, height, x, y>> that root.geometry() splits into
OnWindowConfigure(geometry) ==
    /\ ChangeAndDebounce("window_geometry",
                         Dict({<<"x", geometry[3]>>, <<"y", geometry[4]>>,
                               <<"width", geometry[1]>>, <<"height", geometry[2]>>}))
    /\ UNCHANGED <<windows, next_id, overlay_windows, is_active, current_color,
                   current_opacity, current_density, monitoring, watchdogs, ui_queue,
                   fade_animation_id, timers, next_timer, olast, oops>>

\* the quiet period of timer t is over: the Tk loop runs settings.save_pending,
\* and the write succeeds
FireSaveTimer(t) ==
    /\ t \in save_timers
    /\ save_timers' = save_timers \ {t}
    /\ IF save_pending
       THEN /\ settings_file' = SaveFile(settings_file, settings, "ok")
            /\ save_pending' = PendingAfterSave(save_pending, "ok")
       ELSE UNCHANGED <<settings_file, save_pending>>
    /\ burst' = [burst EXCEPT !.writes = IF save_pending THEN @ + 1 ELSE @]
    /\ io_error' = "none"
    /\ last' = Call("save_pending", "", Null, "", FALSE, "none")
    /\ UNCHANGED <<settings, backup_file, profiles, export_file, ops>>
    /\ UNCHANGED <<save_timer_id, next_save_timer>>
    /\ UNCHANGED <<migrateVars, overlayVars, scheduleVars, densityVars>>
    /\ UNCHANGED sysVars

FireSomeSaveTimer == \E t \in save_timers : FireSaveTimer(t)

GeometryInputs == {<<"480", "750", "100", "100">>, <<"640", "750", "200", "50">>}

DebounceNext ==
    \/ \E value \in OpacityInputs : OnOpacityChange(value)
    \/ \E value \in DensityInputs : OnDensityChange(value)
    \/ \E geometry \in GeometryInputs : OnWindowConfigure(geometry)
    \/ FireSomeSaveTimer

(***************************************************************************)
(* _apply_density as a function of its arguments                           *)
(***************************************************************************)
\* the hex digits the colours given are written with, in both cases
DigitInputs == {"0", "9", "a", "A", "f", "F"}

\* every #RRGGBB over DigitInputs
ColorInputs == {<<"#", c[1], c[2], c[3], c[4], c[5], c[6]>> : c \in [1..6 -> DigitInputs]}

\* densities of 0.5, 1.0 and 1.5
DensityLevels == {50, 100, 150}

\* self._apply_density(hex_color, density) is called
ApplyDensityCall ==
    /\ d_out = <<>>
    /\ d_out' = ApplyDensity(d_color, d_density)
    /\ UNCHANGED <<d_color, d_density>>
    /\ UNCHANGED <<settingsVars, migrateVars, overlayVars, scheduleVars, debounceVars>>
    /\ UNCHANGED sysVars

DensityNext == ApplyDensityCall

(***************************************************************************)
(* Specifications: each runs one component; the others stay as they start  *)
(***************************************************************************)
\* the settings store of a first run: no settings file, no profiles
SettingsStart ==
    /\ settings = DEFAULT_SETTINGS
    /\ save_pending = FALSE
    /\ settings_file = FileAbsent
    /\ profiles = [name \in ProfileNames |-> FileAbsent]
    /\ export_file = FileAbsent
    /\ io_error = "none"
    /\ last = NoCall
    /\ ops = 0

\* _migrate_settings not called
MigrateStart ==
    /\ m_out = NoResult
    /\ m_out2 = NoResult

\* the settings that a slider or the window geometry changes
SliderKinds == {"opacity", "density", "window_geometry"}

NoBurst == [kinds |-> {}, writes |-> 0]

\* ScheduleManager.__init__, and an application whose sliders were not moved
AppStart ==
    /\ running = FALSE
    /\ tick = 0
    /\ decision = "none"
    /\ in_window = "unknown"
    /\ twin_schedule = DefaultSchedule
    /\ twin_decision = "none"
    /\ save_timers = {}
    /\ save_timer_id = [kind \in SliderKinds |-> 0]
    /\ next_save_timer = 1
    /\ burst = NoBurst
    /\ d_color = <<>>
    /\ d_density = 0
    /\ d_out = <<>>

\* no component was called on its own yet
ValidateStart == validate_call = [prior |-> EmptyDict, loaded |-> EmptyDict]

\* no schedule loop was started and the schedule dialog is closed
LoopStart ==
    /\ schedule_loops = <<>>
    /\ dialog = [pc |-> "idle", enabled |-> FALSE]

DetectStart == detected = <<>>

\* no lock file and no process
LockStart ==
    /\ lock_file = FileAbsent
    /\ lockers = <<>>

LoggerStart ==
    logger = [running |-> TRUE, queue |-> <<>>, unfinished |-> 0, pc |-> "while",
              entry |-> <<>>, file |-> <<>>, logged |-> <<>>, stop |-> "none"]

SysStart ==
    /\ ValidateStart
    /\ LoopStart
    /\ DetectStart
    /\ LockStart
    /\ LoggerStart

\* OverlayManager.__init__
OverlayStart ==
    /\ windows = [id \in {} |-> 0]
    /\ next_id = 1
    /\ overlay_windows = <<>>
    /\ is_active = FALSE
    /\ current_color = ""
    /\ current_opacity = 30
    /\ current_density = 100
    /\ monitoring = FALSE
    /\ watchdogs = <<>>
    /\ ui_queue = <<>>
    /\ fade_animation_id = 0
    /\ timers = {}
    /\ next_timer = 1
    /\ olast = NoOverlayCall
    /\ oops = 0

\* SettingsManager.__init__ with no settings file; a backup may be left from
\* an earlier corruption
SettingsInit ==
    /\ SettingsStart
    /\ MigrateStart
    /\ OverlayStart
    /\ AppStart
    /\ SysStart
    /\ m_in = EmptyDict /\ m_from = 0 /\ m_pc = "idle"
    /\ olimit = 0
    /\ backup_file \in {FileAbsent, CorruptFile(2)}

\* the caller reads from_version from the record: loaded.get('version', 1)
MigrateInit ==
    /\ SettingsStart
    /\ MigrateStart
    /\ OverlayStart
    /\ AppStart
    /\ SysStart
    /\ backup_file = FileAbsent
    /\ olimit = 0
    /\ m_pc = "input"
    /\ m_from \in 1..SETTINGS_VERSION
    /\ \E r \in MigrationInputs :
          \/ m_in = Put(r, "version", Num(m_from))
          \/ m_from = 1 /\ m_in = r

OverlayInit ==
    /\ SettingsStart
    /\ MigrateStart
    /\ OverlayStart
    /\ AppStart
    /\ SysStart
    /\ m_in = EmptyDict /\ m_from = 0 /\ m_pc = "idle"
    /\ backup_file = FileAbsent
    /\ olimit = MaxOverlayOps

SpecSettings == SettingsInit /\ [][SettingsNext]_vars

SpecMigrate == MigrateInit /\ [][MigrateNext]_vars

SpecOverlay == OverlayInit /\ [][OverlayNext]_vars

SpecDisk == SettingsInit /\ [][DiskNext]_vars

SurfaceInit ==
    /\ SettingsStart
    /\ MigrateStart
    /\ OverlayStart
    /\ AppStart
    /\ SysStart
    /\ m_in = EmptyDict /\ m_from = 0 /\ m_pc = "idle"
    /\ backup_file = FileAbsent
    /\ olimit = MaxSurfaceOps

SpecSurface == SurfaceInit /\ [][SurfaceNext]_vars

FadeInit ==
    /\ SettingsStart
    /\ MigrateStart
    /\ OverlayStart
    /\ AppStart
    /\ SysStart
    /\ m_in = EmptyDict /\ m_from = 0 /\ m_pc = "idle"
    /\ backup_file = FileAbsent
    /\ olimit = MaxFadeOps

SpecFade == FadeInit /\ [][FadeNext]_vars

\* a settings record whose schedule is enabled; the twin schedule differs from
\* it in start_time and end_time at most
ScheduleInit ==
    /\ \E w \in ScheduleWindows, use_sunset \in {"true", "false"} :
          /\ settings = [DEFAULT_SETTINGS EXCEPT !.schedule = Schedule(w[1], w[2], use_sunset)]
          /\ \E v \in ScheduleWindows : twin_schedule = Schedule(v[1], v[2], use_sunset)
    /\ save_pending = FALSE
    /\ settings_file = FileAbsent
    /\ backup_file = FileAbsent
    /\ profiles = [name \in ProfileNames |-> FileAbsent]
    /\ export_file = FileAbsent
    /\ io_error = "none"
    /\ last = NoCall
    /\ ops = 0
    /\ MigrateStart
    /\ m_in = EmptyDict /\ m_from = 0 /\ m_pc = "idle"
    /\ OverlayStart
    /\ olimit = MaxScheduleOps
    /\ running = FALSE
    /\ tick = 0
    /\ decision = "none"
    /\ in_window = "unknown"
    /\ twin_decision = "none"
    /\ save_timers = {}
    /\ save_timer_id = [kind \in SliderKinds |-> 0]
    /\ next_save_timer = 1
    /\ burst = NoBurst
    /\ d_color = <<>>
    /\ d_density = 0
    /\ d_out = <<>>
    /\ SysStart

SpecSchedule == ScheduleInit /\ [][ScheduleNext]_vars

DebounceInit ==
    /\ SettingsStart
    /\ MigrateStart
    /\ OverlayStart
    /\ AppStart
    /\ SysStart
    /\ m_in = EmptyDict /\ m_from = 0 /\ m_pc = "idle"
    /\ backup_file = FileAbsent
    /\ olimit = 0

\* the Tk loop runs every timer whose quiet period is over
SpecDebounce == DebounceInit /\ [][DebounceNext]_vars /\ WF_vars(FireSomeSaveTimer)

DensityInit ==
    /\ SettingsStart
    /\ MigrateStart
    /\ OverlayStart
    /\ m_in = EmptyDict /\ m_from = 0 /\ m_pc = "idle"
    /\ backup_file = FileAbsent
    /\ olimit = 0
    /\ running = FALSE
    /\ tick = 0
    /\ decision = "none"
    /\ in_window = "unknown"
    /\ twin_schedule = DefaultSchedule
    /\ twin_decision = "none"
    /\ save_timers = {}
    /\ save_timer_id = [kind \in SliderKinds |-> 0]
    /\ next_save_timer = 1
    /\ burst = NoBurst
    /\ d_color \in ColorInputs
    /\ d_density \in DensityLevels
    /\ d_out = <<>>
    /\ SysStart

SpecDensity == DensityInit /\ [][DensityNext]_vars

WatchdogInit ==
    /\ SettingsStart
    /\ MigrateStart
    /\ OverlayStart
    /\ AppStart
    /\ SysStart
    /\ m_in = EmptyDict /\ m_from = 0 /\ m_pc = "idle"
    /\ backup_file = FileAbsent
    /\ olimit = MaxWatchdogOps

\* the scheduler lets every watchdog thread run
SpecWatchdog ==
    /\ WatchdogInit
    /\ [][WatchdogNext]_vars
    /\ \A t \in 1..MaxWatchdogs : WF_vars(WatchdogThread(t))

(***************************************************************************)
(* Properties of the migration                                             *)
(***************************************************************************)
\* the value new keeps the value old: equal, or a dict that kept every item
KeepsValue(old, new) ==
    \/ new = old
    \/ old.t = "dict" /\ new.t = "dict" /\ old.k \subseteq new.k

\* the migration of m_in relocated the legacy 'last_color' into 'custom_color'
Relocated == m_from = 1 /\ Truthy(Get(m_in, "last_color", Null))

\* C9: _migrate_settings from a version below the current one never removes a
\* key and never changes the value of a key already present, apart from the
\* 'version' stamp and the relocation of 'last_color' into 'custom_color'
C9_MigrationStrictlyAdditive ==
    (m_pc = "once" /\ m_from < SETTINGS_VERSION /\ m_out.ok) =>
        \A key \in DOMAIN m_in :
            /\ key \in DOMAIN m_out.rec
            /\ (key # "version" /\ ~(key = "custom_color" /\ Relocated))
                  => KeepsValue(m_in[key], m_out.rec[key])

\* C10: migrate(migrate(R, v), v) == migrate(R, v) for v in 1..5; migrating an
\* already-current record changes nothing but the version field; the version
\* field always ends equal to SETTINGS_VERSION
C10_MigrationIdempotent ==
    /\ m_pc = "twice" => m_out2 = m_out
    /\ m_pc = "current"
          => m_out2 = [ok |-> TRUE, rec |-> Put(m_out.rec, "version", Num(SETTINGS_VERSION))]
    /\ (m_pc = "current" /\ m_out.ok) => m_out2 = m_out
    /\ (m_pc = "once" /\ m_from = SETTINGS_VERSION)
          => m_out = [ok |-> TRUE, rec |-> Put(m_in, "version", Num(SETTINGS_VERSION))]
    /\ (m_pc \in {"once", "twice", "current"} /\ m_out.ok)
          => m_out.rec["version"] = Num(SETTINGS_VERSION)
    /\ (m_pc \in {"twice", "current"} /\ m_out2.ok)
          => m_out2.rec["version"] = Num(SETTINGS_VERSION)

\* C10 witness: a version 1 record with a legacy colour, a preset and a density
\* of its own has been migrated twice, and the migration changed it
C10_Witness ==
    /\ m_pc = "twice"
    /\ m_from = 1
    /\ Relocated
    /\ "density" \in DOMAIN m_in
    /\ "preset_name" \in DOMAIN m_in
    /\ m_out.ok
    /\ m_out.rec # m_in
    /\ m_out.rec["custom_color"] = m_in["last_color"]

(***************************************************************************)
(* Properties of the settings store                                        *)
(***************************************************************************)
OpacityInRange(record) ==
    /\ record["opacity"].t = "num"
    /\ record["opacity"].n >= 10
    /\ record["opacity"].n <= 60

DensityInRange(record) ==
    /\ record["density"].t = "num"
    /\ record["density"].n >= 50
    /\ record["density"].n <= 150

\* what a fresh SettingsManager holds after loading the present settings file
FreshLoad ==
    Load([settings |-> DEFAULT_SETTINGS, file |-> settings_file, backup |-> backup_file],
         TRUE).settings

\* the last call read a JSON object and applied it with _validate_and_apply
AppliedAFile ==
    \/ last.op \in {"import_settings", "load_profile"} /\ last.ret = "True"
    \/ last.op \in {"load", "new"} /\ MigrateLoaded(settings_file).ok

\* C3: in every state reached by set, load, import_settings and load_profile
\* calls, get('opacity') lies in [0.10, 0.60] and get('density') in [0.50, 1.50]
C3_StoredValuesAlwaysInRange == OpacityInRange(settings) /\ DensityInRange(settings)

\* C4: immediately after load(), import_settings() or load_profile() has applied
\* a file, the stored opacity and density are inside their ranges, whatever
\* the file contained
C4_InRangeAfterApplyingAnyFile ==
    AppliedAFile => OpacityInRange(settings) /\ DensityInRange(settings)

\* C5: after set(k, v) with an in-range v and save(), a fresh SettingsManager
\* loading the same file returns get(k) == v, for every settings key k
C5_EveryKeySurvivesSaveAndFreshLoad ==
    (last.op = "set" /\ last.imm /\ InRange(last.key, last.val))
        => Get(FreshLoad, last.key, Null) = last.val

LoadedASavedProfile ==
    /\ last.op = "load_profile"
    /\ profiles[last.name] \in {JsonDump(ProfileNoVersion), JsonDump(ProfileWithVersion)}

\* C7: after save_profile(name, data) with in-range opacity and density, with or
\* without a 'version' key, load_profile(name) returns True and leaves
\* opacity == data['opacity'], density == data['density'], current_profile == name
C7_LoadProfileRestoresSavedData ==
    LoadedASavedProfile =>
        /\ last.ret = "True"
        /\ settings["opacity"] = profiles[last.name].obj["opacity"]
        /\ settings["density"] = profiles[last.name].obj["density"]
        /\ settings["current_profile"] = Str(last.name)

\* C8: load() on an unparseable settings file leaves the defaults in memory and
\* moves the corrupted content to the backup path, replacing any earlier
\* backup; load() with no settings file changes nothing
C8_CorruptFileBackedUpAndReset ==
    [][ (last'.op \in {"load", "new"} /\ ops' = ops + 1) =>
          /\ settings_file.kind = "corrupt" =>
                /\ settings' = DEFAULT_SETTINGS
                /\ backup_file' = settings_file
                /\ ~Exists(settings_file')
          /\ (~Exists(settings_file) /\ last'.op = "new") =>
                /\ settings' = DEFAULT_SETTINGS
                /\ UNCHANGED <<settings_file, backup_file>>
          /\ (~Exists(settings_file) /\ last'.op = "load") =>
                UNCHANGED <<settings, settings_file, backup_file>>
      ]_vars

(***************************************************************************)
(* Properties of OverlayManager, checked under SpecOverlay                 *)
(***************************************************************************)
\* a step that is a call of create(), from a handler or from the callback the
\* watchdog queued
IsCreateCall == oops' = oops + 1 /\ olast'.op \in {"create", "callback"}

\* the monitors of the call just made on which a surface was built and
\* click-through enabling succeeded
Succeeded(call) ==
    IF TkAcceptsColor(ApplyDensity(Chars(call.color), call.density))
    THEN call.ok
    ELSE {}

\* surface id is the overlay of monitor i for the call
Covers(wins, id, call, i) ==
    /\ id \in DOMAIN wins
    /\ wins[id].x = call.monitors[i].x
    /\ wins[id].y = call.monitors[i].y
    /\ wins[id].width = call.monitors[i].width
    /\ wins[id].height = call.monitors[i].height
    /\ wins[id].alpha = call.opacity
    /\ wins[id].bg = ApplyDensity(Chars(call.color), call.density)

\* C1: after create(color, opacity, density) on a layout where click-through
\* enabling succeeds on a non-empty set M of monitors, create returns True,
\* the tracked surfaces are exactly one per monitor of M, each with that
\* monitor's geometry, alpha = opacity and background =
\* _apply_density(color, density), is_active is true, the watchdog runs, and
\* every surface that existed before the call has been destroyed.
C1_CreateBuildsOneSurfacePerMonitor ==
    [][ (IsCreateCall /\ Succeeded(olast') # {}) =>
          /\ olast'.ret = "True"
          /\ Len(overlay_windows') = Cardinality(Succeeded(olast'))
          /\ \A i \in Succeeded(olast') :
                \E k \in 1..Len(overlay_windows') :
                   Covers(windows', overlay_windows'[k], olast', i)
          /\ \A k \in 1..Len(overlay_windows') :
                \E i \in Succeeded(olast') :
                   Covers(windows', overlay_windows'[k], olast', i)
          /\ is_active'
          /\ monitoring' /\ watchdogs' # <<>>
          /\ olast'.pre \cap DOMAIN windows' = {} ]_vars

\* C2: when click-through enabling or surface creation fails for every
\* monitor, create() returns False and afterwards no surface is tracked or
\* left on screen, is_active is false and the watchdog is stopped.
C2_TotalFailureLeavesNothing ==
    [][ (IsCreateCall /\ Succeeded(olast') = {}) =>
          /\ olast'.ret = "False"
          /\ overlay_windows' = <<>>
          /\ DOMAIN windows' = {}
          /\ ~is_active'
          /\ ~monitoring' ]_vars

(***************************************************************************)
(* Properties of the settings store when file operations may fail,         *)
(* checked under SpecDisk                                                  *)
(***************************************************************************)
\* the disk operations of SettingsManager
DiskOperations ==
    {"load", "save", "export_settings", "import_settings", "save_profile", "load_profile",
     "list_profiles", "delete_profile"}

\* the caller of the last call can tell from the value returned that it failed
ReportsFailure ==
    \/ last.ret = "False"
    \/ last.op = "list_profiles" /\ last.val = List(<<>>)

\* C11: a SettingsManager disk operation whose file I/O fails returns a value
\* that tells the failure from success; in particular it never reports success
\* when a write it performed failed
C11_DiskFailureIsReported ==
    (last.op \in DiskOperations /\ io_error # "none") => ReportsFailure

\* the step is a call of the named SettingsManager method
IsCall(op) == ops' = ops + 1 /\ last'.op = op

\* C12: set(key, value, save_immediately=False) makes get(key) return value and
\* sets the pending-write flag without touching the settings file; the flag
\* stays set until a save succeeds (a failed save leaves it and the in-memory
\* record as they were); a successful save() or save_pending() writes the whole
\* in-memory record and clears the flag; save_pending() with the flag clear
\* writes nothing
C12_PendingFlagFollowsSaves ==
    [][ /\ (IsCall("set") /\ ~last'.imm) =>
              /\ Get(settings', last'.key, Null) = last'.val
              /\ save_pending'
              /\ settings_file' = settings_file
        /\ (save_pending /\ ~save_pending') =>
              \/ IsCall("new")
              \/ io_error' = "none" /\ settings_file' = JsonDump(settings')
        /\ ((IsCall("save") \/ IsCall("save_pending")) /\ io_error' = "write") =>
              /\ save_pending' = save_pending
              /\ settings' = settings
        /\ ((IsCall("save") \/ (IsCall("save_pending") /\ save_pending))
               /\ io_error' = "none") =>
              /\ settings_file' = JsonDump(settings)
              /\ ~save_pending'
              /\ settings' = settings
        /\ (IsCall("save_pending") /\ ~save_pending) =>
              /\ settings_file' = settings_file
              /\ ~save_pending'
      ]_vars

\* C12 witness: a batched set('opacity', 0.4, False) has been flushed by
\* save_pending(): the file holds the in-memory record and the flag is clear
C12_Witness ==
    /\ last.op = "save_pending"
    /\ io_error = "none"
    /\ ~save_pending
    /\ settings["opacity"] = Num(40)
    /\ settings_file = JsonDump(settings)

(***************************************************************************)
(* Slider updates reach every surface                                      *)
(***************************************************************************)
\* the tracked surfaces that exist
TrackedSurfaces == Range(overlay_windows) \cap DOMAIN windows

\* C13: after any sequence of create, hide, update_opacity, update_density and
\* show without fade, every shown surface has the alpha last given and the
\* background that the density transform gives for the colour and the density
\* last given
C13_UpdatesReachEverySurface ==
    \A w \in TrackedSurfaces :
        windows[w].shown =>
            /\ windows[w].alpha = current_opacity
            /\ windows[w].bg = ApplyDensity(Chars(current_color), current_density)

(***************************************************************************)
(* destroy() and the fades                                                 *)
(***************************************************************************)
\* what destroy() leaves: nothing tracked, not active, watchdog flag cleared
Cleared == overlay_windows = <<>> /\ ~is_active /\ ~monitoring

\* C14: after destroy() the tracked set is empty, is_active is false and the
\* watchdog flag is cleared, and this stays so until the next call: no watchdog
\* step and no pending callback brings a surface or is_active back
C14_DestroyIsFinal == olast.op = "destroy" => Cleared

\* the tracked surfaces are all withdrawn and the overlay is not active
HiddenAsAsked == ~is_active /\ \A w \in TrackedSurfaces : ~windows[w].shown

\* the tracked surfaces are all shown at the current opacity and the overlay is
\* active
ShownAsAsked ==
    /\ is_active
    /\ \A w \in TrackedSurfaces : windows[w].shown /\ windows[w].alpha = current_opacity

\* C15: when show() or hide(), fading or instant, was called while a fade was in
\* flight, then once no animate callback is pending the overlay is in the state
\* that this latest call asked for
C15_LatestCallSupersedesFade ==
    (olast.fading /\ timers = {}) =>
        /\ olast.op \in {"hide", "hide_fade"} => HiddenAsAsked
        /\ olast.op \in {"show", "show_fade"} => ShownAsAsked

(***************************************************************************)
(* The watchdog repairs the overlay                                        *)
(***************************************************************************)
\* the overlay is active and every tracked surface was destroyed from outside
AllSurfacesLost == is_active /\ overlay_windows # <<>> /\ TrackedSurfaces = {}

\* the overlay is active and tracks one existing surface for each monitor of
\* the create() that built it
Repaired ==
    /\ is_active
    /\ overlay_windows # <<>>
    /\ Range(overlay_windows) \subseteq DOMAIN windows
    /\ Len(overlay_windows) = Len(olast.monitors)

\* the Tk loop runs every callback it was given: the queue is empty again and
\* again
CallbacksRun == []<>(ui_queue = <<>>)

C17_OneCallPerTransition ==
    [][ tick' = tick + 1 =>
          /\ (in_window' = "in" /\ in_window # "in" /\ ~is_active /\ current_color # "")
                => decision' = "show" /\ ui_queue' = Append(ui_queue, "show")
          /\ (in_window' = "out" /\ in_window # "out" /\ is_active)
                => decision' = "hide" /\ ui_queue' = Append(ui_queue, "hide")
          /\ in_window' = in_window => decision' = "none" ]_vars

\* C18: with use_sunset true the polls give the same calls whatever start_time
\* and end_time are: the run under the twin schedule, which differs in those
\* two only, is given the same call at every poll
C18_SunsetIgnoresStartEnd ==
    NestedGet(Get(settings, "schedule", Dict({})), "use_sunset", "false") = "true"
        => decision = twin_decision

C20_IdentityAtFullDensity ==
    (d_out # <<>> /\ d_density = 100) => d_out = d_color

(***************************************************************************)
(* The density transform below density 1.0                                 *)
(***************************************************************************)
\* the channel of the colour cs that starts at character i (after the '#')
ChannelOf(cs, i) == Channel(LStripHash(cs), i)

\* 100 times the exact blend c*d + 255*(1-d), d in hundredths
ExactBlend100(c, density) == c * density + 255 * (100 - density)

\* out is the exact blend, up to the rounding to a whole channel value
IsBlendOf(out, c, density) ==
    /\ out \in 0..255
    /\ 100 * out - ExactBlend100(c, density) \in -99..99

\* C21: for density d < 1.0 every output channel is the linear blend of the
\* input channel toward white, c*d + 255*(1-d), and lies in [0, 255]; density
\* 0.5 applied to #000000 gives #808080
C21_BlendTowardWhite ==
    (d_out # <<>> /\ d_density < 100) =>
        /\ \A i \in {1, 3, 5} :
               IsBlendOf(ChannelOf(d_out, i), ChannelOf(d_color, i), d_density)
        /\ (d_color = Chars("#000000") /\ d_density = 50) => d_out = Chars("#808080")

(***************************************************************************)
(* _validate_and_apply: the shape of custom_color and records with one bad *)
(* field                                                                   *)
(***************************************************************************)
\* the values a stored 'custom_color' may have: two colours, a '#' followed by
\* something else than six hex digits, a string without '#', a number, null
ColorShapes ==
    {Str("#80C0FF"), Str("#GGGGGG"), Str("#FFF"), Str("red"), Num(3), Null}

\* a record of the current version with the custom_color c
ColorRecord(c) == [version |-> Num(SETTINGS_VERSION), opacity |-> Num(50), custom_color |-> c]

ColorContents == {JsonDump(ColorRecord(c)) : c \in ColorShapes}

\* a record whose five validated fields are all of the documented type
ValidRecord ==
    [opacity |-> Num(50), density |-> Num(120), preset_name |-> Str("Yellow"),
     custom_color |-> Str("#80C0FF"), overlay_enabled |-> Bool(TRUE)]

\* one field and a value of the wrong type for it (JSON true for a number, a
\* string or a number for a flag, ...)
BadFields ==
    { <<"opacity", Str("abc")>>, <<"opacity", Bool(TRUE)>>, <<"density", Null>>,
      <<"preset_name", Num(3)>>, <<"custom_color", Num(3)>>,
      <<"overlay_enabled", Str("no")>>, <<"overlay_enabled", Null>> }

\* the records given to _validate_and_apply
ValidateInputs ==
    {Put(ValidRecord, bad[1], bad[2]) : bad \in BadFields}
        \cup {ColorRecord(c) : c \in ColorShapes}

\* self._validate_and_apply(loaded) on the live manager
ValidateCall(loaded) ==
    /\ ops < MaxOps
    /\ settings' = ValidateAndApply(settings, loaded)
    /\ validate_call' = [prior |-> settings, loaded |-> loaded]
    /\ io_error' = "none"
    /\ last' = Call("validate_and_apply", "", Null, "", FALSE, "none")
    /\ ops' = ops + 1
    /\ UNCHANGED <<save_pending, settings_file, backup_file, profiles, export_file>>
    /\ UNCHANGED <<migrateVars, overlayVars, scheduleVars, debounceVars, densityVars>>
    /\ UNCHANGED <<loopVars, detectVars, lockVars, loggerVars>>

\* the set() calls that give the store a state other than the defaults
ValidateSetInputs ==
    { <<"custom_color", Str("#FFD54F")>>, <<"opacity", Num(40)>>,
      <<"overlay_enabled", Bool(TRUE)>> }

\* files of every custom_color shape are loaded, imported and loaded as a
\* profile, and _validate_and_apply is given records with one bad field
ValidateNext ==
    \/ \E kv \in ValidateSetInputs, imm \in BOOLEAN : Set(kv[1], kv[2], imm, "ok")
    \/ \E content \in ColorContents : FileReplaced(content)
    \/ LoadCall(TRUE, "ok")
    \/ NewManager(TRUE, "ok")
    \/ \E content \in ColorContents : ImportSettings(content, "ok", "ok")
    \/ \E content \in ColorContents : ProfileReplaced("night", content)
    \/ LoadProfile("night", "ok", "ok")
    \/ \E loaded \in ValidateInputs : ValidateCall(loaded)

ValidateInit ==
    /\ SettingsStart
    /\ MigrateStart
    /\ OverlayStart
    /\ AppStart
    /\ SysStart
    /\ m_in = EmptyDict /\ m_from = 0 /\ m_pc = "idle"
    /\ backup_file = FileAbsent
    /\ olimit = 0

SpecValidate == ValidateInit /\ [][ValidateNext]_vars

\* null, or '#' followed by exactly six hexadecimal digits
IsColorOrNull(v) ==
    \/ v.t = "null"
    \/ /\ v.t = "str"
       /\ Len(Chars(v.s)) = 7
       /\ Chars(v.s)[1] = "#"
       /\ \A i \in 2..7 : IsHexChar(Chars(v.s)[i])

\* C22: after any load(), import_settings() or load_profile(),
\* get('custom_color') is null or a '#' followed by exactly six hexadecimal
\* digits; a loaded value of any other shape is dropped and the prior value is
\* retained
C22_CustomColorIsHexOrNull ==
    /\ last.op \in {"load", "new", "import_settings", "load_profile"}
          => IsColorOrNull(settings["custom_color"])
    /\ (/\ last.op = "validate_and_apply"
        /\ ~IsColorOrNull(Get(validate_call.loaded, "custom_color", Null)))
          => settings["custom_color"] = validate_call.prior["custom_color"]

\* the five fields that _validate_and_apply reads
ValidatedKeys == {"opacity", "density", "preset_name", "custom_color", "overlay_enabled"}

\* v has the documented type of the field key
WellTyped(key, v) ==
    CASE key \in {"opacity", "density"} -> v.t = "num"
      [] key \in {"preset_name", "custom_color"} -> v.t \in {"null", "str"}
      [] key = "overlay_enabled" -> v.t = "bool"
      [] OTHER -> FALSE

\* the last call gave _validate_and_apply a record with one field of the
\* wrong type among well-typed ones
OneBadField ==
    /\ last.op = "validate_and_apply"
    /\ \E bad \in BadFields : validate_call.loaded = Put(ValidRecord, bad[1], bad[2])

\* C23: given a record with one field of the wrong type among otherwise valid
\* fields, _validate_and_apply applies every valid field and leaves the bad
\* field at its prior in-memory value
C23_OneBadFieldIsSkipped ==
    OneBadField => \A key \in ValidatedKeys :
        IF WellTyped(key, validate_call.loaded[key])
        THEN settings[key] = validate_call.loaded[key]
        ELSE settings[key] = validate_call.prior[key]

(***************************************************************************)
(* EaseViewApp.choose_custom_color and the list of recent colours          *)
(***************************************************************************)
\* Bound: number of times the colour picker is opened in a run
MaxPicks == 12

\* the length that recent_colors is cut to
MaxRecent == 10

\* a plausible slip: the list is not cut
KeepAll(recent) == recent

\* recent[:10]
KeepRecent(recent) == SubSeq(recent, 1, Min(MaxRecent, Len(recent)))

\* self.settings.get('recent_colors', [])
RecentColors(record) == Get(record, "recent_colors", List(<<>>)).l

\* the three settings that choose_custom_color stores for the colour picked
WithPicked(record, picked) ==
    LET recent == RecentColors(record)
        s1 == IF picked \notin Range(recent)
              THEN Put(record, "recent_colors", List(KeepRecent(<<picked>> \o recent)))
              ELSE record
    IN  Put(Put(s1, "preset_name", Null), "custom_color", Str(picked))

\* what colorchooser.askcolor can return: "" when the dialog is cancelled, a
\* string without '#', a colour not in the list (colours are interchangeable,
\* so the first such colour of the palette stands for all), and the colours
\* at the head, in the middle and at the end of the list
PickInputs ==
    LET recent == RecentColors(settings)
        fresh == {i \in 1..Len(Palette) : Palette[i] \notin Range(recent)}
    IN  {"", "red"}
          \cup {Palette[i] : i \in {j \in fresh : \A k \in fresh : j <= k}}
          \cup {recent[i] : i \in {1, 2, Len(recent)} \cap DOMAIN recent}

\* choose_custom_color() with the picker returning picked; apply_overlay
\* calls create() on one monitor, and window tells whether tk.Toplevel works
ChooseCustomColor(picked, window) ==
    /\ ops < MaxPicks
    /\ ops' = ops + 1
    /\ io_error' = "none"
    /\ IF picked = "" \/ ~StartsWithHash(picked)
       THEN /\ last' = Call("choose_custom_color", "", Str(picked), "", FALSE, "none")
            /\ UNCHANGED <<settings, save_pending, settings_file>>
            /\ UNCHANGED <<overlayVars>>
       ELSE LET s2 == WithPicked(settings, picked)
                res == CreateOp(Manager, picked, settings["opacity"].n,
                                settings["density"].n, <<Monitor(1)>>, <<window>>)
                s3 == IF res.ret = "True"
                      THEN Put(s2, "overlay_enabled", Bool(TRUE))
                      ELSE s2
            IN  /\ settings' = s3
                /\ settings_file' = SaveWrites(s3)
                /\ save_pending' = FALSE
                /\ last' = Call("choose_custom_color", "", Str(picked), "", FALSE, res.ret)
                /\ Becomes(res.o)
                /\ olast' = OverlayCall("create", res.ret)
                /\ UNCHANGED <<oops, olimit>>
    /\ UNCHANGED <<backup_file, profiles, export_file>>
    /\ UNCHANGED <<migrateVars, appVars>>

RecentNext ==
    \E picked \in PickInputs, window \in {"ok", "no_window"} :
        ChooseCustomColor(picked, window)

RecentInit ==
    /\ SettingsStart
    /\ MigrateStart
    /\ OverlayStart
    /\ AppStart
    /\ SysStart
    /\ m_in = EmptyDict /\ m_from = 0 /\ m_pc = "idle"
    /\ backup_file = FileAbsent
    /\ olimit = 0

SpecRecent == RecentInit /\ [][RecentNext]_vars

\* no element occurs twice
NoDuplicates(seq) == \A i, j \in 1..Len(seq) : seq[i] = seq[j] => i = j

\* C24: after any sequence of custom-colour selections, recent_colors has at
\* most 10 entries and holds no colour twice
C24_RecentColorsBounded ==
    /\ Len(RecentColors(settings)) <= 10
    /\ NoDuplicates(RecentColors(settings))

\* C24 witness: an eleventh distinct colour was picked into a full list, and
\* the oldest colour was dropped
C24_Witness ==
    /\ last.op = "choose_custom_color"
    /\ last.val = Str(Palette[11])
    /\ Len(RecentColors(settings)) = 10
    /\ RecentColors(settings)[1] = Palette[11]
    /\ Palette[1] \notin Range(RecentColors(settings))

\* the last call was a selection of a colour that the handler accepted
Picked == last.op = "choose_custom_color" /\ last.ret # "none"

\* C25: immediately after the user chooses custom colour c, c is the first
\* element of recent_colors, also when c was already further down the list
C25_MostRecentFirst ==
    Picked => /\ RecentColors(settings) # <<>>
              /\ Str(RecentColors(settings)[1]) = last.val

(***************************************************************************)
(* Profiles: save_profile, delete_profile, list_profiles next to the live  *)
(* settings                                                                *)
(***************************************************************************)
\* the names given to the profile operations
ProfileNameInputs == ProfileNames \cup ParentDirNames

\* the profile operations and the operations on the live settings, every file
\* operation succeeding
ProfilesNext ==
    \/ \E name \in ProfileNameInputs : SaveProfile(name, ProfileWithVersion, "ok")
    \/ \E name \in ProfileNameInputs : SaveProfileCurrent(name, "ok")
    \/ \E name \in ProfileNameInputs : DeleteProfile(name, "ok")
    \/ \E name \in ProfileNameInputs : LoadProfile(name, "ok", "ok")
    \/ ListProfilesCall("ok")
    \/ \E kv \in DiskSetInputs, imm \in BOOLEAN : Set(kv[1], kv[2], imm, "ok")
    \/ Save("ok")
    \/ LoadCall(TRUE, "ok")

\* a first run: no settings file and no profile file
ProfilesInit ==
    /\ settings = DEFAULT_SETTINGS
    /\ save_pending = FALSE
    /\ settings_file = FileAbsent
    /\ backup_file = FileAbsent
    /\ profiles = [name \in ProfileNameInputs |-> FileAbsent]
    /\ export_file = FileAbsent
    /\ io_error = "none"
    /\ last = NoCall
    /\ ops = 0
    /\ MigrateStart
    /\ OverlayStart
    /\ AppStart
    /\ SysStart
    /\ m_in = EmptyDict /\ m_from = 0 /\ m_pc = "idle"
    /\ olimit = 0

SpecProfiles == ProfilesInit /\ [][ProfilesNext]_vars

\* the names given, as sorted() orders them
SortedNameInputs == <<"../night", "night", "work">>

\* C26: list_profiles() returns exactly the names saved and not deleted since,
\* in sorted order; delete_profile(name) returns True if and only if the
\* profile existed; only delete_profile removes a profile and only
\* save_profile stores one, so that saving or loading the live settings never
\* alters a stored profile
C26_ProfilesKeyedByName ==
    [][ ops' = ops + 1 =>
          /\ last'.op = "list_profiles" =>
                last'.val = List(SelectSeq(SortedNameInputs,
                                           LAMBDA n : Exists(profiles[n])))
          /\ last'.op = "delete_profile" =>
                /\ last'.ret = "True" <=> Exists(profiles[last'.name])
                /\ ~Exists(profiles'[last'.name])
          /\ last'.op = "save_profile" =>
                /\ last'.ret = "True"
                /\ Exists(profiles'[last'.name])
          /\ \A n \in ProfileNameInputs :
                /\ (Exists(profiles[n]) /\ ~Exists(profiles'[n]))
                      => (last'.op = "delete_profile" /\ last'.name = n)
                /\ profiles'[n] # profiles[n]
                      => (last'.op \in {"save_profile", "delete_profile"} /\ last'.name = n)
      ]_vars

(***************************************************************************)
(* The schedule loops as threads, and the schedule dialog that stops and   *)
(* restarts them.  A thread takes one step at a time: the while test, the  *)
(* read of the stored schedule, the rest of the loop body, the end of      *)
(* time.sleep(60).  The save() handler of the dialog runs on the UI thread *)
(* while the loops run, so its three calls are three steps.                *)
(***************************************************************************)
\* Bound: schedule_loop threads started in a run
MaxLoops == 2

\* Bound: times the schedule dialog is saved in a run
MaxDialogSaves == 3

\* ScheduleManager.start(), on the manager fields it reads and writes
StartLoop(is_running, loops) ==
    IF is_running \/ ~ScheduleEnabled
    THEN [running |-> is_running, loops |-> loops]
    ELSE [running |-> TRUE,
          loops |-> Append(loops, [pc |-> "while", schedule |-> Null, observed |-> FALSE])]

\* the schedule that the dialog stores: the window 09:00 to 17:00
DialogSchedule(enabled) ==
    Dict({<<"enabled", IF enabled THEN "true" ELSE "false">>, <<"start_time", "09:00">>,
          <<"end_time", "17:00">>, <<"use_sunset", "false">>,
          <<"location", "55.9533,-3.1883,Europe/London">>})

\* save() of the schedule dialog: self.settings.set('schedule', schedule_data)
DialogSet(enabled) ==
    /\ dialog.pc = "idle"
    /\ ops < MaxDialogSaves
    /\ settings' = Put(settings, "schedule", DialogSchedule(enabled))
    /\ settings_file' = SaveWrites(settings')
    /\ save_pending' = FALSE
    /\ io_error' = "none"
    /\ last' = Call("set", "schedule", DialogSchedule(enabled), "", TRUE, "none")
    /\ ops' = ops + 1
    /\ dialog' = [pc |-> "stop", enabled |-> enabled]
    /\ UNCHANGED <<backup_file, profiles, export_file, schedule_loops>>
    /\ UNCHANGED <<migrateVars, overlayVars, scheduleVars, debounceVars, densityVars>>
    /\ UNCHANGED <<validateVars, detectVars, lockVars, loggerVars>>

\* save() of the schedule dialog: self.schedule_manager.stop()
DialogStop ==
    /\ dialog.pc = "stop"
    /\ running' = FALSE
    /\ dialog' = [dialog EXCEPT !.pc = IF dialog.enabled THEN "start" ELSE "idle"]
    /\ UNCHANGED <<tick, decision, in_window, twin_schedule, twin_decision, schedule_loops>>
    /\ UNCHANGED <<settingsVars, migrateVars, overlayVars, debounceVars, densityVars>>
    /\ UNCHANGED <<validateVars, detectVars, lockVars, loggerVars>>

\* save() of the schedule dialog: if enabled_var.get(): self.schedule_manager.start()
DialogStart ==
    /\ dialog.pc = "start"
    /\ Len(StartLoop(running, schedule_loops).loops) <= MaxLoops
    /\ running' = StartLoop(running, schedule_loops).running
    /\ schedule_loops' = StartLoop(running, schedule_loops).loops
    /\ dialog' = [dialog EXCEPT !.pc = "idle"]
    /\ UNCHANGED <<tick, decision, in_window, twin_schedule, twin_decision>>
    /\ UNCHANGED <<settingsVars, migrateVars, overlayVars, debounceVars, densityVars>>
    /\ UNCHANGED <<validateVars, detectVars, lockVars, loggerVars>>

\* a plausible slip: the loop goes on with the schedule it read
ReadScheduleNoBreak(loop, is_running) ==
    [loop |-> [loop EXCEPT !.pc = "body", !.schedule = Get(settings, "schedule", Dict({}))],
     running |-> is_running]

\* schedule = self.app.settings.get('schedule', {}); if it is not enabled:
\* self.running = False; break
ReadSchedule(loop, is_running) ==
    IF ~ScheduleEnabled
    THEN [loop |-> [loop EXCEPT !.pc = "done", !.observed = TRUE], running |-> FALSE]
    ELSE [loop |-> [loop EXCEPT !.pc = "body",
                                !.schedule = Get(settings, "schedule", Dict({}))],
          running |-> is_running]

\* while self.running:
LoopTest(i) ==
    /\ i \in DOMAIN schedule_loops
    /\ schedule_loops[i].pc = "while"
    /\ schedule_loops' =
          [schedule_loops EXCEPT ![i].pc = IF running THEN "read" ELSE "done"]
    /\ UNCHANGED <<scheduleVars, dialog>>
    /\ UNCHANGED <<settingsVars, migrateVars, overlayVars, debounceVars, densityVars>>
    /\ UNCHANGED <<validateVars, detectVars, lockVars, loggerVars>>

\* the read of the stored schedule and the test of 'enabled'
LoopRead(i) ==
    /\ i \in DOMAIN schedule_loops
    /\ schedule_loops[i].pc = "read"
    /\ LET res == ReadSchedule(schedule_loops[i], running)
       IN  /\ schedule_loops' = [schedule_loops EXCEPT ![i] = res.loop]
           /\ running' = res.running
    /\ UNCHANGED <<tick, decision, in_window, twin_schedule, twin_decision, dialog>>
    /\ UNCHANGED <<settingsVars, migrateVars, overlayVars, debounceVars, densityVars>>
    /\ UNCHANGED <<validateVars, detectVars, lockVars, loggerVars>>

\* the rest of the loop body: the time is compared with the window of the
\* schedule read, and show or hide is given to root.after(0, ...); the run
\* covers the poll times of one day and every later poll is in its evening
LoopBody(i) ==
    /\ i \in DOMAIN schedule_loops
    /\ schedule_loops[i].pc = "body"
    /\ LET now == PollTimes[Min(tick + 1, Len(PollTimes))]
           given == ScheduleDecision(schedule_loops[i].schedule, now, is_active,
                                     current_color)
       IN  /\ decision' = given
           /\ in_window' = WindowState(schedule_loops[i].schedule, now)
           /\ ui_queue' = IF given = "none" THEN ui_queue ELSE Append(ui_queue, given)
    /\ tick' = Min(tick + 1, Len(PollTimes))
    /\ schedule_loops' = [schedule_loops EXCEPT ![i].pc = "sleep"]
    /\ UNCHANGED <<running, twin_schedule, twin_decision, dialog>>
    /\ UNCHANGED <<windows, next_id, overlay_windows, is_active, current_color,
                   current_opacity, current_density, monitoring, watchdogs,
                   fade_animation_id, timers, next_timer, olast, oops, olimit>>
    /\ UNCHANGED <<settingsVars, migrateVars, debounceVars, densityVars>>
    /\ UNCHANGED <<validateVars, detectVars, lockVars, loggerVars>>

\* time.sleep(60) returns; a fade lasts less than the minute
LoopWake(i) ==
    /\ i \in DOMAIN schedule_loops
    /\ schedule_loops[i].pc = "sleep"
    /\ ui_queue = <<>>
    /\ timers = {}
    /\ schedule_loops' = [schedule_loops EXCEPT ![i].pc = "while"]
    /\ UNCHANGED <<scheduleVars, dialog>>
    /\ UNCHANGED <<settingsVars, migrateVars, overlayVars, debounceVars, densityVars>>
    /\ UNCHANGED <<validateVars, detectVars, lockVars, loggerVars>>

\* one step of the schedule_loop thread i
LoopStep(i) == LoopTest(i) \/ LoopRead(i) \/ LoopBody(i) \/ LoopWake(i)

\* the UI loop runs the callbacks and the fade steps that are due
UiStep == RunScheduled \/ \E t \in timers : FadeTick(t)

\* the user picks a colour and saves the schedule dialog, the loops poll
LoopsNext ==
    \/ \E input \in FadeInputs : Create(input[1], input[2], input[3], <<Monitor(1)>>, <<"ok">>)
    \/ UiStep
    \/ \E enabled \in BOOLEAN : DialogSet(enabled)
    \/ DialogStop
    \/ DialogStart
    \/ \E i \in 1..MaxLoops : LoopStep(i)

\* a start: load() never takes the schedule of the file, so the schedule is
\* the default one, disabled, and __init__ starts no loop
LoopsInit ==
    /\ settings = DEFAULT_SETTINGS
    /\ save_pending = FALSE
    /\ settings_file = FileAbsent
    /\ backup_file = FileAbsent
    /\ profiles = [name \in ProfileNames |-> FileAbsent]
    /\ export_file = FileAbsent
    /\ io_error = "none"
    /\ last = NoCall
    /\ ops = 0
    /\ MigrateStart
    /\ m_in = EmptyDict /\ m_from = 0 /\ m_pc = "idle"
    /\ OverlayStart
    /\ olimit = 1
    /\ AppStart
    /\ SysStart

\* every thread gets to run, the handler of the dialog runs to its end, and
\* the UI loop runs what it is given
SpecLoops ==
    /\ LoopsInit
    /\ [][LoopsNext]_vars
    /\ \A i \in 1..MaxLoops : WF_vars(LoopStep(i))
    /\ WF_vars(DialogStop \/ DialogStart)
    /\ WF_vars(UiStep)

\* every schedule loop that was started has left its while loop
AllLoopsEnded == \A i \in DOMAIN schedule_loops : schedule_loops[i].pc = "done"

\* C27: when schedule.enabled becomes false while loops are running, every
\* loop observes it at its next iteration and terminates, and a loop that
\* observed it gives nothing more to the UI loop
C27_DisabledScheduleStopsLoops ==
    /\ [](\A i \in DOMAIN schedule_loops :
             /\ schedule_loops[i].observed => schedule_loops[i].pc = "done"
             /\ schedule_loops[i].pc = "body" =>
                   NestedGet(schedule_loops[i].schedule, "enabled", "false") = "true")
    /\ [][Len(ui_queue') > Len(ui_queue) =>
             \E i \in DOMAIN schedule_loops :
                /\ schedule_loops[i].pc = "body"
                /\ ~schedule_loops[i].observed
                /\ schedule_loops'[i].pc = "sleep"]_vars
    /\ [](~ScheduleEnabled => <>(AllLoopsEnded \/ ScheduleEnabled))

\* C27 witness: two loops were running, the schedule was disabled, one loop
\* read it and both ended
C27_Witness ==
    /\ Len(schedule_loops) = 2
    /\ AllLoopsEnded
    /\ \E i \in DOMAIN schedule_loops : schedule_loops[i].observed
    /\ ~ScheduleEnabled
    /\ ~running

(***************************************************************************)
(* MonitorDetector.get_monitors(): the win32 enumeration, the Tk screen    *)
(* query and the hard-coded entry.                                         *)
(***************************************************************************)
\* Bound: monitors that the win32 enumeration yields
MaxEnumerated == 3

\* the entry that get_monitors appends for a monitor rectangle and its work area
MonitorEntry(rect, work) ==
    [x |-> rect[1], y |-> rect[2],
     width |-> rect[3] - rect[1], height |-> rect[4] - rect[2],
     work_x |-> work[1], work_y |-> work[2],
     work_width |-> work[3] - work[1], work_height |-> work[4] - work[2]]

\* the entry of the fallbacks: the whole screen at the origin
ScreenEntry(width, height) == MonitorEntry(<<0, 0, width, height>>, <<0, 0, width, height>>)

\* the i-th monitor of a row of 1920x1080 monitors with a 40 pixel task bar
Win32Info(i) == [Monitor |-> <<1920 * (i - 1), 0, 1920 * i, 1080>>,
                 Work |-> <<1920 * (i - 1), 0, 1920 * i, 1040>>]

\* outcomes of the win32 part: per monitor that EnumDisplayMonitors yields,
\* GetMonitorInfo answers ("ok") or raises; <<>> is no monitor or a call
\* of EnumDisplayMonitors that raises
EnumOutcomes ==
    UNION { [1..n -> {"ok", "raises"}] : n \in 0..MaxEnumerated }

\* outcomes of the Tk part: the screen size read, or the step that raises
TkOutcomes ==
    {[raises |-> "none", width |-> size[1], height |-> size[2]] :
        size \in {<<1920, 1080>>, <<1366, 768>>, <<3840, 2160>>}}
    \cup {[raises |-> step, width |-> 0, height |-> 0] :
            step \in {"Tk", "winfo_screenwidth", "destroy"}}

\* the for loop over EnumDisplayMonitors(): entries are appended until a
\* call raises
RECURSIVE EnumLoop(_, _, _)
EnumLoop(enum, i, monitors) ==
    IF i > Len(enum) \/ enum[i] = "raises"
    THEN monitors
    ELSE EnumLoop(enum, i + 1,
                  Append(monitors, MonitorEntry(Win32Info(i).Monitor, Win32Info(i).Work)))

\* a plausible slip: no entry is appended when the Tk query raises
TkFallbackNoDefault(tk) ==
    IF tk.raises = "none" THEN <<ScreenEntry(tk.width, tk.height)>> ELSE <<>>

\* the fallback to a single monitor: the Tk screen size, or 1920x1080 when
\* anything of the Tk query raises
TkFallback(tk) ==
    IF tk.raises = "none"
    THEN <<ScreenEntry(tk.width, tk.height)>>
    ELSE <<ScreenEntry(1920, 1080)>>

\* get_monitors()
GetMonitors(win32_available, enum, tk) ==
    LET monitors == IF win32_available THEN EnumLoop(enum, 1, <<>>) ELSE <<>>
    IN  IF monitors = <<>> THEN TkFallback(tk) ELSE monitors

\* a call of get_monitors() on a platform with the given outcomes
GetMonitorsCall(win32_available, enum, tk) ==
    /\ detected' = <<[win32 |-> win32_available, enum |-> enum, tk |-> tk,
                      monitors |-> GetMonitors(win32_available, enum, tk)]>>
    /\ UNCHANGED <<settingsVars, migrateVars, overlayVars, scheduleVars, debounceVars,
                   densityVars, validateVars, loopVars, lockVars, loggerVars>>

DetectNext ==
    \E win32_available \in BOOLEAN, enum \in EnumOutcomes, tk \in TkOutcomes :
       GetMonitorsCall(win32_available, enum, tk)

DetectInit ==
    /\ SettingsStart
    /\ backup_file = FileAbsent
    /\ MigrateStart
    /\ m_in = EmptyDict /\ m_from = 0 /\ m_pc = "idle"
    /\ OverlayStart
    /\ olimit = 0
    /\ AppStart
    /\ SysStart

SpecDetect == DetectInit /\ [][DetectNext]_vars

\* the keys that every caller of get_monitors reads
GeometryKeys == {"x", "y", "width", "height"}

\* C28: get_monitors() returns a non-empty sequence whose entries each carry
\* x, y, width and height, whatever the win32 and Tk queries do
C28_MonitorsNeverEmpty ==
    \A i \in DOMAIN detected :
       /\ detected[i].monitors # <<>>
       /\ \A k \in DOMAIN detected[i].monitors :
             /\ GeometryKeys \subseteq DOMAIN detected[i].monitors[k]
             /\ \A key \in GeometryKeys : detected[i].monitors[k][key] \in Int

\* C28 witness: win32 is there, GetMonitorInfo raises for the first monitor,
\* tk.Tk() raises, and the single 1920x1080 entry is returned
C28_Witness ==
    /\ detected # <<>>
    /\ detected[1].win32
    /\ detected[1].enum = <<"raises", "ok">>
    /\ detected[1].tk.raises = "Tk"
    /\ detected[1].monitors = <<ScreenEntry(1920, 1080)>>

(***************************************************************************)
(* InstanceLocker: processes that start, take the lock file step by step,  *)
(* and release it or die.  A process is named by its pid, its place in     *)
(* lockers.  The text of the lock file is a pid, or 0 for the empty file   *)
(* that open(LOCK_FILE, 'w') leaves until the pid is written.              *)
(***************************************************************************)
\* Bound: processes started in a run
MaxProcesses == 3

\* the lock file: the inode it is, named by the process that created it,
\* and its text
LockFile(ino, text) == [kind |-> "lock", ino |-> ino, text |-> text]

\* os.kill(pid, 0) finds the process: it was started and has not ended
Alive(pid) ==
    /\ pid \in DOMAIN lockers
    /\ lockers[pid].pc \notin {"exited", "dead"}

\* the process p goes to the given place of acquire_lock or release_lock
Goes(p, pc) == lockers' = [lockers EXCEPT ![p].pc = pc]

\* a process starts and calls acquire_lock()
Launch ==
    /\ Len(lockers) < MaxProcesses
    /\ lockers' = Append(lockers, [pc |-> "exists", pid |-> 0, fd |-> 0])
    /\ UNCHANGED lock_file
    /\ UNCHANGED <<settingsVars, migrateVars, overlayVars, scheduleVars, debounceVars,
                   densityVars, validateVars, loopVars, detectVars, loggerVars>>

\* if os.path.exists(LOCK_FILE):
LockExists(p) ==
    /\ p \in DOMAIN lockers
    /\ lockers[p].pc = "exists"
    /\ Goes(p, IF Exists(lock_file) THEN "read" ELSE "open")
    /\ UNCHANGED lock_file
    /\ UNCHANGED <<settingsVars, migrateVars, overlayVars, scheduleVars, debounceVars,
                   densityVars, validateVars, loopVars, detectVars, loggerVars>>

\* pid = int(f.read().strip()): a file that is gone raises OSError, an empty
\* one ValueError
LockRead(p) ==
    /\ p \in DOMAIN lockers
    /\ lockers[p].pc = "read"
    /\ lockers' = IF Exists(lock_file) /\ lock_file.text # 0
                  THEN [lockers EXCEPT ![p].pc = "kill", ![p].pid = lock_file.text]
                  ELSE [lockers EXCEPT ![p].pc = "remove"]
    /\ UNCHANGED lock_file
    /\ UNCHANGED <<settingsVars, migrateVars, overlayVars, scheduleVars, debounceVars,
                   densityVars, validateVars, loopVars, detectVars, loggerVars>>

\* os.kill(pid, 0); return False, and EaseViewApp.__init__ calls sys.exit(0);
\* OSError when there is no such process
LockKill(p) ==
    /\ p \in DOMAIN lockers
    /\ lockers[p].pc = "kill"
    /\ Goes(p, IF Alive(lockers[p].pid) THEN "exited" ELSE "remove")
    /\ UNCHANGED lock_file
    /\ UNCHANGED <<settingsVars, migrateVars, overlayVars, scheduleVars, debounceVars,
                   densityVars, validateVars, loopVars, detectVars, loggerVars>>

\* os.remove(LOCK_FILE) in acquire_lock, every exception passed: the file
\* is removed, or the platform refuses ("fails") and it stays
LockRemove(p, outcome) ==
    /\ p \in DOMAIN lockers
    /\ lockers[p].pc = "remove"
    /\ outcome = "fails" => Exists(lock_file)
    /\ lock_file' = IF outcome = "ok" THEN FileAbsent ELSE lock_file
    /\ Goes(p, "open")
    /\ UNCHANGED <<settingsVars, migrateVars, overlayVars, scheduleVars, debounceVars,
                   densityVars, validateVars, loopVars, detectVars, loggerVars>>

\* open(LOCK_FILE, 'w'): the file is created, or emptied if it is there
LockOpen(p) ==
    /\ p \in DOMAIN lockers
    /\ lockers[p].pc = "open"
    /\ LET ino == IF Exists(lock_file) THEN lock_file.ino ELSE p
       IN  /\ lock_file' = LockFile(ino, 0)
           /\ lockers' = [lockers EXCEPT ![p].pc = "write", ![p].fd = ino]
    /\ UNCHANGED <<settingsVars, migrateVars, overlayVars, scheduleVars, debounceVars,
                   densityVars, validateVars, loopVars, detectVars, loggerVars>>

\* f.write(str(os.getpid())), the file closed, return True: the text goes
\* to the file that was opened, which may not be at LOCK_FILE any more
LockWrite(p) ==
    /\ p \in DOMAIN lockers
    /\ lockers[p].pc = "write"
    /\ lock_file' = IF Exists(lock_file) /\ lock_file.ino = lockers[p].fd
                    THEN LockFile(lock_file.ino, p)
                    ELSE lock_file
    /\ Goes(p, "held")
    /\ UNCHANGED <<settingsVars, migrateVars, overlayVars, scheduleVars, debounceVars,
                   densityVars, validateVars, loopVars, detectVars, loggerVars>>

\* the application quits and calls release_lock()
LockReleaseCall(p) ==
    /\ p \in DOMAIN lockers
    /\ lockers[p].pc = "held"
    /\ Goes(p, "release_exists")
    /\ UNCHANGED lock_file
    /\ UNCHANGED <<settingsVars, migrateVars, overlayVars, scheduleVars, debounceVars,
                   densityVars, validateVars, loopVars, detectVars, loggerVars>>

\* release_lock: if os.path.exists(LOCK_FILE):
LockReleaseExists(p) ==
    /\ p \in DOMAIN lockers
    /\ lockers[p].pc = "release_exists"
    /\ Goes(p, IF Exists(lock_file) THEN "release_remove" ELSE "exited")
    /\ UNCHANGED lock_file
    /\ UNCHANGED <<settingsVars, migrateVars, overlayVars, scheduleVars, debounceVars,
                   densityVars, validateVars, loopVars, detectVars, loggerVars>>

\* release_lock: os.remove(LOCK_FILE), every exception passed
LockReleaseRemove(p, outcome) ==
    /\ p \in DOMAIN lockers
    /\ lockers[p].pc = "release_remove"
    /\ outcome = "fails" => Exists(lock_file)
    /\ lock_file' = IF outcome = "ok" THEN FileAbsent ELSE lock_file
    /\ Goes(p, "exited")
    /\ UNCHANGED <<settingsVars, migrateVars, overlayVars, scheduleVars, debounceVars,
                   densityVars, validateVars, loopVars, detectVars, loggerVars>>

\* a process that holds the lock is killed: no release_lock()
LockHolderDies(p) ==
    /\ p \in DOMAIN lockers
    /\ lockers[p].pc = "held"
    /\ Goes(p, "dead")
    /\ UNCHANGED lock_file
    /\ UNCHANGED <<settingsVars, migrateVars, overlayVars, scheduleVars, debounceVars,
                   densityVars, validateVars, loopVars, detectVars, loggerVars>>

LockNext ==
    \/ Launch
    \/ \E p \in 1..MaxProcesses :
          \/ LockExists(p)
          \/ LockRead(p)
          \/ LockKill(p)
          \/ \E outcome \in {"ok", "fails"} : LockRemove(p, outcome)
          \/ LockOpen(p)
          \/ LockWrite(p)
          \/ LockReleaseCall(p)
          \/ LockReleaseExists(p)
          \/ \E outcome \in {"ok", "fails"} : LockReleaseRemove(p, outcome)
          \/ LockHolderDies(p)

LockInit ==
    /\ SettingsStart
    /\ backup_file = FileAbsent
    /\ MigrateStart
    /\ m_in = EmptyDict /\ m_from = 0 /\ m_pc = "idle"
    /\ OverlayStart
    /\ olimit = 0
    /\ AppStart
    /\ SysStart

SpecLock == LockInit /\ [][LockNext]_vars

\* the processes whose acquire_lock() returned True and that have not
\* called release_lock()
Holders == {p \in DOMAIN lockers : lockers[p].pc = "held"}

\* C29: at most one process holds the instance lock at a time
C29_AtMostOneHolder == Cardinality(Holders) <= 1

(***************************************************************************)
(* AsyncLogger: log() on the threads of the application, the worker thread *)
(* step by step, and stop().  logger.unfinished is the count that          *)
(* queue.Queue keeps for join(): one up at put(), one down at task_done(). *)
(***************************************************************************)
\* Bound: entries given to log() in a run
MaxEntries == 3

\* AsyncLogger.__init__: max_lines=500
max_lines == 500

\* _trim_log: the last max_lines lines are kept
TrimLog(lines) ==
    IF Len(lines) > max_lines
    THEN SubSeq(lines, Len(lines) - max_lines + 1, Len(lines))
    ELSE lines

UnchangedByLogger ==
    UNCHANGED <<settingsVars, migrateVars, overlayVars, scheduleVars, debounceVars,
                densityVars, validateVars, loopVars, detectVars, lockVars>>

\* log(level, message): the entry is put on the queue; the log() of a
\* stopped logger returns at once and changes nothing
Log(level) ==
    /\ Len(logger.logged) < MaxEntries
    /\ logger.running
    /\ LET entry == <<level, Len(logger.logged) + 1>>
       IN  logger' = [logger EXCEPT !.queue = Append(@, entry),
                                   !.unfinished = @ + 1,
                                   !.logged = Append(@, entry)]
    /\ UnchangedByLogger

\* _worker: while self.running:
WorkerTest ==
    /\ logger.pc = "while"
    /\ logger' = [logger EXCEPT !.pc = IF logger.running THEN "get" ELSE "ended"]
    /\ UnchangedByLogger

\* _worker: entry = self.queue.get(timeout=1); queue.Empty after a second
\* without an entry, and the loop goes on
WorkerGet ==
    /\ logger.pc = "get"
    /\ logger' = IF logger.queue = <<>>
                 THEN [logger EXCEPT !.pc = "while"]
                 ELSE [logger EXCEPT !.pc = "write", !.entry = Head(logger.queue),
                                     !.queue = Tail(@)]
    /\ UnchangedByLogger

\* _worker: the entry is appended to the file, the file trimmed, task_done()
WorkerWrite ==
    /\ logger.pc = "write"
    /\ logger' = [logger EXCEPT !.pc = "while", !.entry = <<>>,
                                !.file = TrimLog(Append(@, logger.entry)),
                                !.unfinished = @ - 1]
    /\ UnchangedByLogger

\* one step of the worker thread
WorkerStep == WorkerTest \/ WorkerGet \/ WorkerWrite

\* stop(): self.running = False
StopCall ==
    /\ logger.stop = "none"
    /\ logger' = [logger EXCEPT !.running = FALSE, !.stop = "join"]
    /\ UnchangedByLogger

\* stop(): self.queue.join() returns when every entry put has been marked
\* done
StopJoin ==
    /\ logger.stop = "join"
    /\ logger.unfinished = 0
    /\ logger' = [logger EXCEPT !.stop = "returned"]
    /\ UnchangedByLogger

LoggerNext ==
    \/ \E level \in {"INFO", "WARN", "ERROR"} : Log(level)
    \/ WorkerStep
    \/ StopCall
    \/ StopJoin

LoggerInit ==
    /\ SettingsStart
    /\ backup_file = FileAbsent
    /\ MigrateStart
    /\ m_in = EmptyDict /\ m_from = 0 /\ m_pc = "idle"
    /\ OverlayStart
    /\ olimit = 0
    /\ AppStart
    /\ SysStart

\* the worker thread gets to run, and join() returns once it can
SpecLogger ==
    /\ LoggerInit
    /\ [][LoggerNext]_vars
    /\ WF_vars(WorkerStep)
    /\ WF_vars(StopJoin)

\* C30: stop() returns, and when it has returned every entry queued before
\* it is in the log file, in the order of the log calls
C30_StopFlushesAndReturns ==
    /\ [](logger.stop = "returned" => logger.file = logger.logged)
    /\ [](logger.stop = "join" => <>(logger.stop = "returned"))

(***************************************************************************)
(* Properties of the threads and of shutdown                               *)
(***************************************************************************)
\* the step was taken by a monitor_loop thread: the UI thread only appends
\* to watchdogs
WatchdogStepped == watchdogs' # watchdogs /\ Len(watchdogs') <= Len(watchdogs)

\* the step was taken by a schedule_loop thread: the UI thread only appends
\* to schedule_loops
ScheduleLoopStepped ==
    schedule_loops' # schedule_loops /\ Len(schedule_loops') = Len(schedule_loops)

\* the surface state of the overlay manager: the tracked list, is_active,
\* and the visibility and alpha of the windows
SurfaceState == <<overlay_windows, is_active, windows>>

\* C31: a step of a watchdog thread or of a schedule thread leaves the
\* tracked surface list, is_active and the surfaces as they are
C31_ThreadsLeaveSurfaceState ==
    [][(WatchdogStepped \/ ScheduleLoopStepped) => UNCHANGED SurfaceState]_vars

(***************************************************************************)
(* quit_app next to the watchdog thread and the schedule loops             *)
(***************************************************************************)
\* quit_app has run to its end
HasQuit == last.op = "quit_app"

\* quit_app(): schedule_manager.stop(), overlay.destroy(), save_pending(),
\* save(), the window geometry stored and saved, release_lock()
QuitApp(geometry) ==
    /\ ~HasQuit
    /\ dialog.pc = "idle"
    /\ running' = FALSE
    /\ Becomes(DestroyOp(Manager))
    /\ settings' = Put(settings, "window_geometry",
                       Dict({<<"x", geometry[3]>>, <<"y", geometry[4]>>,
                             <<"width", geometry[1]>>, <<"height", geometry[2]>>}))
    /\ settings_file' = SaveWrites(settings')
    /\ save_pending' = FALSE
    /\ io_error' = "none"
    /\ last' = Call("quit_app", "", Null, "", FALSE, "none")
    /\ lock_file' = FileAbsent
    /\ olast' = OverlayCall("destroy", "none")
    /\ UNCHANGED <<ops, backup_file, profiles, export_file, oops, olimit, lockers>>
    /\ UNCHANGED <<tick, decision, in_window, twin_schedule, twin_decision>>
    /\ UNCHANGED <<migrateVars, debounceVars, densityVars>>
    /\ UNCHANGED <<validateVars, loopVars, detectVars, loggerVars>>

\* what the UI thread does until quit_app has run
QuitUiNext ==
    \/ \E input \in FadeInputs : Create(input[1], input[2], input[3], <<Monitor(1)>>, <<"ok">>)
    \/ \E enabled \in BOOLEAN : DialogSet(enabled)
    \/ DialogStop
    \/ DialogStart
    \/ UiStep
    \/ \E geometry \in GeometryInputs : QuitApp(geometry)

\* the application runs and is quit; the threads run on their own
QuitNext ==
    \/ ~HasQuit /\ QuitUiNext
    \/ \E i \in 1..MaxLoops : LoopStep(i)
    \/ \E t \in 1..MaxWatchdogs : WatchdogThread(t)

SpecQuit == LoopsInit /\ [][QuitNext]_vars

\* C32: when quit_app has run to its end, no watchdog loop and no schedule
\* loop is still running
C32_QuitWaitsForLoops ==
    HasQuit => (watchdogs = <<>> /\ AllLoopsEnded)

\* the monitor_loop threads that are running: inside the loop body, or at a
\* loop test that lets them go on
RunningWatchdogs ==
    {t \in DOMAIN watchdogs :
        watchdogs[t].pc # "test" \/ (monitoring /\ overlay_windows # <<>>)}

\* C33: at most one watchdog loop is running at any time
C33_OneWatchdogLoop == Cardinality(RunningWatchdogs) <= 1

\* the schedule_loop threads that are running: inside the loop body, or at
\* a while test that lets them go on
RunningScheduleLoops ==
    {i \in DOMAIN schedule_loops :
        \/ schedule_loops[i].pc \in {"read", "body", "sleep"}
        \/ schedule_loops[i].pc = "while" /\ running}

\* C34: at most one schedule loop thread is running at any time
C34_OneScheduleLoop == Cardinality(RunningScheduleLoops) <= 1

\* no watchdog thread is inside an iteration and the UI loop has nothing to run
Settled ==
    /\ \A t \in DOMAIN watchdogs : watchdogs[t].pc = "test"
    /\ ui_queue = <<>>

\* the surfaces that create() finished and appended to the tracked list,
\* and that still exist
LiveSurfaces == {id \in DOMAIN windows : windows[id].click_through}

\* C35: once the calls and the watchdog iterations settle, every surface
\* that still exists is in the tracked list
C35_NoSurfaceLeftUntracked ==
    Settled => LiveSurfaces \subseteq Range(overlay_windows)

\* the last call was a create() that returned True, and no call of the
\* manager has been made since
CreatedLast == olast.op = "create" /\ olast.ret = "True"

\* C36: after a create() that succeeded, and until the next call of the
\* manager, the overlay is active and its surfaces are shown at the opacity
\* asked for, whatever fade was under way before the create()
C36_CreateSupersedesFade ==
    CreatedLast =>
        /\ is_active
        /\ \A id \in Range(overlay_windows) \cap DOMAIN windows :
              /\ windows[id].shown
              /\ windows[id].alpha = olast.opacity

(***************************************************************************)
(* EaseViewApp.toggle_overlay and EaseViewApp.apply_overlay                *)
(***************************************************************************)
\* Bound: handlers of the application run in a run of the toggle
MaxToggleOps == 4

\* the colour that the third branch of toggle_overlay applies: custom_color
\* when no preset is active ("" for None); no run here has a preset
LastColour ==
    IF settings["preset_name"].t = "null" /\ settings["custom_color"].t = "str"
    THEN settings["custom_color"].s
    ELSE ""

\* toggle_overlay(): hide_overlay() when active; else show() and
\* overlay_enabled = True, button ON, when a colour was applied before; else
\* apply_overlay with the last colour, where window is what the monitor does
\* in create().  enabled and button are "same" when they are left alone
ToggleOverlay(window) ==
    /\ ops < MaxToggleOps
    /\ window # "ok" => (~is_active /\ current_color = "" /\ LastColour # "")
    /\ \E branch \in {IF is_active THEN "hide"
                       ELSE IF current_color # "" THEN "show"
                       ELSE IF LastColour # "" THEN "apply"
                       ELSE "nothing"} :
       \E res \in {CASE branch = "hide" -> [o |-> HideCall(Manager, TRUE), ret |-> "none"]
                     [] branch = "show" -> [o |-> ShowCall(Manager, TRUE), ret |-> "none"]
                     [] branch = "apply" ->
                            CreateOp(Manager, LastColour, settings["opacity"].n,
                                     settings["density"].n, <<Monitor(1)>>, <<window>>)
                     [] OTHER -> [o |-> Manager, ret |-> "none"]} :
       \E enabled \in {CASE branch = "hide" -> "false"
                         [] branch = "show" -> "true"
                         [] branch = "apply" /\ res.ret = "True" -> "true"
                         [] OTHER -> "same"} :
       \E s1 \in {IF enabled = "same"
                   THEN settings
                   ELSE Put(settings, "overlay_enabled", Bool(enabled = "true"))} :
          /\ Becomes(res.o)
          /\ settings' = s1
          /\ settings_file' = IF enabled = "same" THEN settings_file ELSE SaveWrites(s1)
          /\ save_pending' = IF enabled = "same" THEN save_pending ELSE FALSE
          /\ last' = Call("toggle_overlay", "overlay_enabled", s1["overlay_enabled"], "",
                          FALSE,
                          CASE enabled = "true" -> "on"
                            [] enabled = "false" -> "off"
                            [] OTHER -> "same")
          /\ olast' = OverlayCall("toggle", res.ret)
    /\ ops' = ops + 1
    /\ io_error' = "none"
    /\ UNCHANGED <<backup_file, profiles, export_file, oops, olimit>>
    /\ UNCHANGED <<migrateVars, appVars>>

\* the user picks a colour (which may fail to give a surface) and toggles,
\* surfaces are destroyed from outside, fades run
ToggleNext ==
    \/ \E window \in {"ok", "ct_fail", "no_window"} :
          ops < MaxToggleOps /\ ChooseCustomColor("#FFD54F", window)
    \/ \E window \in {"ok", "ct_fail", "no_window"} : ToggleOverlay(window)
    \/ \E ids \in SUBSET (DOMAIN windows) : ExternalDestroy(ids)
    \/ \E t \in timers : FadeTick(t)

\* a start with the default settings, or with a custom colour loaded from
\* the settings file
ToggleInit ==
    /\ settings \in {DEFAULT_SETTINGS,
                     Put(DEFAULT_SETTINGS, "custom_color", Str("#FFD54F"))}
    /\ save_pending = FALSE
    /\ settings_file = FileAbsent
    /\ backup_file = FileAbsent
    /\ profiles = [name \in ProfileNames |-> FileAbsent]
    /\ export_file = FileAbsent
    /\ io_error = "none"
    /\ last = NoCall
    /\ ops = 0
    /\ MigrateStart
    /\ m_in = EmptyDict /\ m_from = 0 /\ m_pc = "idle"
    /\ OverlayStart
    /\ olimit = 2
    /\ AppStart
    /\ SysStart

SpecToggle == ToggleInit /\ [][ToggleNext]_vars

\* a tracked surface exists and is shown, or a fade-in is under way over one
SurfaceShowing ==
    \E id \in Range(overlay_windows) \cap DOMAIN windows :
       windows[id].shown \/ \E t \in timers : t.fade = "in"

\* C37: when toggle_overlay records overlay_enabled = true and switches the
\* button to ON, a tracked surface exists and is shown or fading in
C37_ToggleOnMeansSurface ==
    [][(ops' = ops + 1 /\ last'.op = "toggle_overlay" /\ last'.ret = "on")
          => (Truthy(settings'["overlay_enabled"]) /\ SurfaceShowing')]_vars

\* a corrective create() is waiting on the UI loop
CreatePending == \E k \in DOMAIN ui_queue : ui_queue[k] = "create"

\* C38: is_active implies that the tracked surface list is non-empty or a
\* corrective create() is pending on the UI loop
C38_ActiveMeansSurfaces ==
    is_active => (overlay_windows # <<>> \/ CreatePending)

\* import_settings or load_profile has just returned False
ReturnedFalse ==
    /\ ops' = ops + 1
    /\ last'.op \in {"import_settings", "load_profile"}
    /\ last'.ret = "False"

\* C39: when import_settings(path) or load_profile(name) returns False, the
\* in-memory settings and the settings file are exactly as they were before
\* the call
C39_FailedLoadChangesNothing ==
    [][ReturnedFalse => UNCHANGED <<settings, settings_file>>]_vars

\* the stored schedule has start_time > end_time, both parsed
Overnight ==
    LET schedule == Get(settings, "schedule", Dict({}))
    IN  /\ FromIsoformat(NestedGet(schedule, "end_time", "17:00")) >= 0
        /\ FromIsoformat(NestedGet(schedule, "start_time", "09:00"))
               > FromIsoformat(NestedGet(schedule, "end_time", "17:00"))

\* the schedule loop has just made a pass
Polled == tick' = tick + 1

\* C40: with start_time > end_time no poll finds the time of day inside the
\* window, the schedule loop never gives show() to the UI loop, and at every
\* poll at which the overlay is active it gives hide()
C40_OvernightWindowIsEmpty ==
    /\ [](Overnight => (in_window # "in" /\ decision # "show"
                        /\ \A k \in DOMAIN ui_queue : ui_queue[k] # "show"))
    /\ [][(Overnight /\ Polled /\ is_active)
              => (decision' = "hide" /\ ui_queue' = Append(ui_queue, "hide"))]_vars

\* an overnight schedule was polled at 19:00, a time a wrapping window would
\* hold, with the overlay active, and hide() was given to the UI loop
C40_Witness ==
    /\ Overnight
    /\ tick = Len(PollTimes)
    /\ in_window = "out"
    /\ decision = "hide"

====
